---- MODULE Spec2Model ----
(***************************************************************************)
(* atracker: the watcher's segmentation loop (src/atracker/watcher.py),    *)
(* the module-level tracking state (src/atracker/db.py) and the query      *)
(* helpers of the dashboard API (src/atracker/api.py).                     *)
(*                                                                         *)
(* Time is counted in tenths of a second, the resolution at which          *)
(* durations are stored (round(duration, 1)); Sec is one second.           *)
(***************************************************************************)
EXTENDS Integers, Sequences, FiniteSets, TLC

VARIABLES
    clock,                  \* last wall-clock reading (datetime.now())
    running,                \* Watcher._running
    loop,                   \* the start() coroutine: "run", "crashed", "done"
    wm_class,               \* Watcher._current_wm_class
    title,                  \* Watcher._current_title
    current_start,          \* Watcher._current_start
    last_poll_time,         \* Watcher._last_poll_time
    is_idle,                \* Watcher._is_idle
    filter_rules,           \* Watcher._filter_rules
    poll_interval,          \* Watcher._poll_interval (seconds)
    idle_threshold,         \* Watcher._idle_threshold (milliseconds)
    last_settings_refresh,  \* Watcher._last_settings_refresh
    is_paused,              \* db._is_paused
    pause_until,            \* db._pause_until
    tracking_state,         \* db._current_tracking_state
    events,                 \* rows of the events table, in insertion order
    db_rules,               \* rows of the filter_rules table
    db_settings,            \* rows of the settings table
    n_ticks,                \* loop iterations so far
    n_stops,                \* stop() calls so far
    categories,             \* rows of the categories table, ORDER BY name
    api_query,              \* arguments of the API call being served
    api_result,             \* what the API call returned
    reader,                 \* a handler that reads the published state
    init_calls,             \* the init_db() calls of the two startups
    android_events,         \* rows of the android_events table (a set)
    pending,                \* a tick suspended in the insert of its flush
    windows,                \* the fields of the Windows watcher run beside it
    last                    \* what the latest operation did (history)

vars == <<clock, running, loop, wm_class, title, current_start, last_poll_time,
          is_idle, filter_rules, poll_interval, idle_threshold,
          last_settings_refresh, is_paused, pause_until, tracking_state,
          events, db_rules, db_settings, n_ticks, n_stops, categories,
          api_query, api_result, reader, init_calls, android_events, pending,
          windows, last>>

watcher_vars == <<running, loop, wm_class, title, current_start, last_poll_time,
                  is_idle, filter_rules, poll_interval, idle_threshold,
                  last_settings_refresh, tracking_state, events, n_ticks, n_stops>>

side_vars == <<reader, init_calls, android_events, pending, windows>>

api_vars == <<categories, api_query, api_result, side_vars>>

---------------------------------------------------------------------------
\* Units and program constants

Sec == 10
DEFAULT_POLL_INTERVAL == 5
DEFAULT_IDLE_THRESHOLD == 120000
RefreshPeriod == 60
JumpFactor == 4

\* Bounds of the model
MaxTime == 400
MaxTicks == 3
MaxStops == 2

HalfSec == Sec \div 2

IDLE == "__idle__"
PAUSED == "__paused__"
Sentinels == {IDLE, PAUSED}
REDACTED == "[Redacted]"

---------------------------------------------------------------------------
\* Regular expressions, on the strings of the model.  A pattern is the
\* empty string, a literal, ".*" or the malformed "(" (re.error).

BadPattern == "("
AnyPattern == ".*"

Lower(s) ==
    CASE s = "Code" -> "code"
      [] s = "YouTube" -> "youtube"
      [] s = "Editor" -> "editor"
      [] s = "Idle" -> "idle"
      [] s = "Paused" -> "paused"
      [] s = REDACTED -> "[redacted]"
      [] OTHER -> s

\* the literal p occurs in s, case respected
Occurs(p, s) ==
    \/ p = s
    \/ p = "file" /\ s = "file.py"
    \/ p = "idle" /\ s = IDLE

\* re.search(pattern, s, flags): "yes", "no" or "error"
ReSearch(pattern, s, ignorecase) ==
    IF pattern = BadPattern THEN "error"
    ELSE IF pattern = AnyPattern THEN "yes"
    ELSE IF ignorecase
         THEN (IF Occurs(Lower(pattern), Lower(s)) THEN "yes" ELSE "no")
         ELSE (IF Occurs(pattern, s) THEN "yes" ELSE "no")

---------------------------------------------------------------------------
\* Watcher._flush_current_event

\* one rule of the for loop, on the accumulated outcome
\* acc = [out: "go" | "ignore" | "raise", title]
FilterRule(acc, rule, wm) ==
    IF acc.out # "go" THEN acc
    ELSE
    LET match_class == IF rule.wm_class_pattern # ""
                       THEN ReSearch(rule.wm_class_pattern, wm, TRUE)
                       ELSE "yes"
        match_title == IF rule.title_pattern # ""
                       THEN ReSearch(rule.title_pattern, acc.title, TRUE)
                       ELSE "yes"
    IN  IF match_class = "error" \/ match_title = "error"
        THEN [acc EXCEPT !.out = "raise"]
        ELSE IF match_class = "yes" /\ match_title = "yes"
        THEN (IF rule.rule_type = "ignore" THEN [acc EXCEPT !.out = "ignore"]
              ELSE IF rule.rule_type = "redact" THEN [acc EXCEPT !.title = REDACTED]
              ELSE acc)
        ELSE acc

RECURSIVE FilterLoop(_, _, _, _)
FilterLoop(rules, i, acc, wm) ==
    IF i > Len(rules) THEN acc
    ELSE FilterLoop(rules, i + 1, FilterRule(acc, rules[i], wm), wm)

\* a flush that runs the rules on the sentinels too
ApplyFilterRules_All(rules, wm, t) ==
    FilterLoop(rules, 1, [out |-> "go", title |-> t], wm)

\* lines 292-313; the sentinels are not filtered (line 296)
ApplyFilterRules(rules, wm, t) ==
    IF wm \in Sentinels THEN [out |-> "go", title |-> t]
    ELSE FilterLoop(rules, 1, [out |-> "go", title |-> t], wm)

\* db.insert_event as _flush_current_event calls it.  Clock readings are whole
\* tenths of a second, which round(duration, 1) stores as they are.
InsertedEvent(w, now, t) ==
    [timestamp |-> w.start, end_timestamp |-> now, wm_class |-> w.wm,
     title |-> t, duration_secs |-> now - w.start,
     is_idle |-> (w.wm = IDLE)]

\* a threshold that lets a half-second segment through
SubSecond_Half(duration) == duration < HalfSec

SubSecond(duration) == duration < Sec

\* a flush without the test of the identity
FlushCurrentEvent_AnyIdentity(w, now, rules, dbfail) ==
    IF SubSecond(now - w.start) THEN w
    ELSE
    LET f == ApplyFilterRules(rules, w.wm, w.title)
    IN  CASE f.out = "raise" -> [w EXCEPT !.exc = "re"]
          [] f.out = "ignore" -> [w EXCEPT !.start = now]
          [] OTHER ->
               IF w.n + 1 = dbfail
               THEN [w EXCEPT !.exc = "db", !.n = @ + 1]
               ELSE [w EXCEPT !.events = Append(@, InsertedEvent(w, now, f.title)),
                              !.start = now, !.n = @ + 1]

\* a flush that leaves the start of the open segment where it was after an
\* insert
FlushCurrentEvent_NoAdvance(w, now, rules, dbfail) ==
    IF w.wm = "" THEN [w EXCEPT !.start = now]
    ELSE IF SubSecond(now - w.start) THEN w
    ELSE
    LET f == ApplyFilterRules(rules, w.wm, w.title)
    IN  CASE f.out = "raise" -> [w EXCEPT !.exc = "re"]
          [] f.out = "ignore" -> [w EXCEPT !.start = now]
          [] OTHER ->
               IF w.n + 1 = dbfail
               THEN [w EXCEPT !.exc = "db", !.n = @ + 1]
               ELSE [w EXCEPT !.events = Append(@, InsertedEvent(w, now, f.title)),
                              !.n = @ + 1]

\* w: the watcher's fields while an operation runs,
\*   [wm, title, start, idle, events, cur, exc, n, t]
\* now: end_time or datetime.now(); dbfail: which insert of this operation fails
FlushCurrentEvent(w, now, rules, dbfail) ==
    IF w.wm = "" THEN [w EXCEPT !.start = now]
    ELSE IF SubSecond(now - w.start) THEN w
    ELSE
    LET f == ApplyFilterRules(rules, w.wm, w.title)
    IN  CASE f.out = "raise" -> [w EXCEPT !.exc = "re"]
          [] f.out = "ignore" -> [w EXCEPT !.start = now]
          [] OTHER ->
               IF w.n + 1 = dbfail
               THEN [w EXCEPT !.exc = "db", !.n = @ + 1]
               ELSE [w EXCEPT !.events = Append(@, InsertedEvent(w, now, f.title)),
                              !.start = now, !.n = @ + 1]

---------------------------------------------------------------------------
\* db.set_paused / db.get_paused

\* [is_paused, pause_until] after get_paused() read at time now
GetPaused(p, until, now) ==
    IF p /\ until > 0 /\ now > until
    THEN [is_paused |-> FALSE, pause_until |-> 0]
    ELSE [is_paused |-> p, pause_until |-> until]

---------------------------------------------------------------------------
\* Watcher._poll

NoWin == [kind |-> "absent"]
RaiseWin == [kind |-> "raise"]
Win(c, t) == [kind |-> "window", wm_class |-> c, title |-> t]

\* the dictionaries passed to db.set_current_state; the one published on
\* pause has no "timestamp" key.  NoState is Python's None.
NoState == [null |-> TRUE]
IsNone(state) == "null" \in DOMAIN state
PausedState == [wm_class |-> PAUSED, title |-> "Paused", is_idle |-> FALSE]
IdleState(ts) == [wm_class |-> IDLE, title |-> "Idle", timestamp |-> ts,
                  is_idle |-> TRUE]
ActiveState(c, t, ts) == [wm_class |-> c, title |-> t, timestamp |-> ts,
                          is_idle |-> FALSE]

\* a pause check that enters Paused again on every paused tick
PollPaused_Again(w, t0, rules, dbfail) ==
    LET f == FlushCurrentEvent(w, t0, rules, dbfail)
    IN  IF f.exc # "none" THEN f
        ELSE [f EXCEPT !.wm = PAUSED, !.title = "Paused", !.start = t0,
                       !.cur = PausedState]

\* lines 126-140: tracking is paused
PollPaused(w, t0, rules, dbfail) ==
    IF w.wm # PAUSED
    THEN LET f == FlushCurrentEvent(w, t0, rules, dbfail)
         IN  IF f.exc # "none" THEN f
             ELSE [f EXCEPT !.wm = PAUSED, !.title = "Paused", !.start = t0,
                            !.cur = PausedState]
    ELSE w

\* an idle entry that drops the running segment instead of closing it
PollIdleEntry_NoFlush(w, t0, rules, dbfail) ==
    [w EXCEPT !.wm = IDLE, !.title = "Idle", !.start = t0,
              !.cur = IdleState(t0)]

\* lines 147-163: just became idle
PollIdleEntry(w, t0, rules, dbfail) ==
    LET f == FlushCurrentEvent(w, t0, rules, dbfail)
    IN  IF f.exc # "none" THEN f
        ELSE [f EXCEPT !.wm = IDLE, !.title = "Idle", !.start = t0,
                       !.cur = IdleState(t0)]

\* a window check that looks at the title only
PollWindow_TitleOnly(w, win, t1, rules, dbfail) ==
    LET v == [w EXCEPT !.t = t1, !.win = win]
    IN  CASE win.kind = "raise" -> [v EXCEPT !.exc = "probe"]
          [] win.kind = "absent" -> v
          [] OTHER ->
               IF win.title # v.title
               THEN LET f == FlushCurrentEvent(v, t1, rules, dbfail)
                    IN  IF f.exc # "none" THEN f
                        ELSE [f EXCEPT !.wm = win.wm_class, !.title = win.title,
                                       !.start = t1,
                                       !.cur = ActiveState(win.wm_class, win.title, t1)]
               ELSE v

\* lines 174-202: the active window, sampled at t1
PollWindow(w, win, t1, rules, dbfail) ==
    LET v == [w EXCEPT !.t = t1, !.win = win]
    IN  CASE win.kind = "raise" -> [v EXCEPT !.exc = "probe"]
          [] win.kind = "absent" -> v
          [] OTHER ->
               IF win.wm_class # v.wm \/ win.title # v.title
               THEN LET f == FlushCurrentEvent(v, t1, rules, dbfail)
                    IN  IF f.exc # "none" THEN f
                        ELSE [f EXCEPT !.wm = win.wm_class, !.title = win.title,
                                       !.start = t1,
                                       !.cur = ActiveState(win.wm_class, win.title, t1)]
               ELSE v

\* Watcher._get_idle_time, lines 262-278: any failure of the probe is
\* answered with 0
RaiseIdle == [kind |-> "raise"]
IdleMs(ms) == [kind |-> "ms", ms |-> ms]
GetIdleTime(probe) == IF probe.kind = "raise" THEN 0 ELSE probe.ms

\* a poll that returns after the flush of the idle exit, leaving the window
\* to the next tick
PollIdle_ExitReturns(w, paused, idle_ms, thr, t0, rules, dbfail) ==
    IF paused THEN [PollPaused(w, t0, rules, dbfail) EXCEPT !.ret = TRUE]
    ELSE
    LET was_idle == w.idle
        w1 == [w EXCEPT !.idle = idle_ms > thr]
    IN  IF w1.idle /\ ~was_idle
        THEN [PollIdleEntry(w1, t0, rules, dbfail) EXCEPT !.ret = TRUE]
        ELSE
        LET w2 == IF was_idle /\ ~w1.idle
                  THEN FlushCurrentEvent(w1, t0, rules, dbfail)
                  ELSE w1
        IN  [w2 EXCEPT !.ret = (w2.exc # "none" \/ w2.idle \/ was_idle)]

\* lines 126-172, up to the window sample.  paused: what get_paused() returned;
\* idle_ms: _get_idle_time(); t0: the time of the poll.  The field ret tells
\* that _poll returned (or raised) before sampling the window.
PollIdle(w, paused, idle_ms, thr, t0, rules, dbfail) ==
    IF paused THEN [PollPaused(w, t0, rules, dbfail) EXCEPT !.ret = TRUE]
    ELSE
    LET was_idle == w.idle
        w1 == [w EXCEPT !.idle = idle_ms > thr]
    IN  IF w1.idle /\ ~was_idle
        THEN [PollIdleEntry(w1, t0, rules, dbfail) EXCEPT !.ret = TRUE]
        ELSE
        LET w2 == IF was_idle /\ ~w1.idle
                  THEN FlushCurrentEvent(w1, t0, rules, dbfail)
                  ELSE w1
        IN  [w2 EXCEPT !.ret = (w2.exc # "none" \/ w2.idle)]

---------------------------------------------------------------------------
\* Watcher._refresh_settings

\* settings values are strings; int(value) raises on one that is no integer
IntValue(n) == [int |-> TRUE, v |-> n]
NotAnInt == [int |-> FALSE, v |-> 0]
IsInt(x) == x.int

\* the storage read of a reload that fails, if any
RefreshFaults == {"none", "get_settings", "get_filter_rules"}

\* a reload that takes the stored settings only when both are integers
RefreshSettings_AllOrNothing(r, now, settings, rules, fault) ==
    IF now - r.at < RefreshPeriod * Sec THEN [r EXCEPT !.res = "skipped"]
    ELSE IF fault # "none" \/ ~IsInt(settings.poll_interval)
                          \/ ~IsInt(settings.idle_threshold)
         THEN [r EXCEPT !.at = now, !.res = "failed"]
    ELSE [poll |-> settings.poll_interval.v,
          thr |-> settings.idle_threshold.v * 1000,
          rules |-> rules, at |-> now, res |-> "ok"]

\* a reload that does not record the time of a failed attempt
RefreshSettings_NoStamp(r, now, settings, rules, fault) ==
    IF now - r.at < RefreshPeriod * Sec THEN [r EXCEPT !.res = "skipped"]
    ELSE IF fault = "get_settings" \/ ~IsInt(settings.poll_interval)
         THEN [r EXCEPT !.res = "failed"]
    ELSE IF ~IsInt(settings.idle_threshold)
         THEN [r EXCEPT !.poll = settings.poll_interval.v, !.res = "failed"]
    ELSE IF fault = "get_filter_rules"
         THEN [r EXCEPT !.poll = settings.poll_interval.v,
                        !.thr = settings.idle_threshold.v * 1000,
                        !.res = "failed"]
    ELSE [poll |-> settings.poll_interval.v,
          thr |-> settings.idle_threshold.v * 1000,
          rules |-> rules, at |-> now, res |-> "ok"]

\* r = [poll, thr, rules, at, res]; fault: the storage read that fails.  The
\* assignments made before the exception stay; res tells how the call ended
RefreshSettings(r, now, settings, rules, fault) ==
    IF now - r.at < RefreshPeriod * Sec THEN [r EXCEPT !.res = "skipped"]
    ELSE IF fault = "get_settings" \/ ~IsInt(settings.poll_interval)
         THEN [r EXCEPT !.at = now, !.res = "failed"]
    ELSE IF ~IsInt(settings.idle_threshold)
         THEN [r EXCEPT !.poll = settings.poll_interval.v, !.at = now,
                        !.res = "failed"]
    ELSE IF fault = "get_filter_rules"
         THEN [r EXCEPT !.poll = settings.poll_interval.v,
                        !.thr = settings.idle_threshold.v * 1000,
                        !.at = now, !.res = "failed"]
    ELSE [poll |-> settings.poll_interval.v,
          thr |-> settings.idle_threshold.v * 1000,
          rules |-> rules, at |-> now, res |-> "ok"]

---------------------------------------------------------------------------
\* Watcher.start: one iteration of the while loop

JumpDetected(now, last_poll, poll) == (now - last_poll) > poll * JumpFactor * Sec

\* lines 70-78
TimeJump(w, now, last_poll, poll, rules, dbfail) ==
    IF JumpDetected(now, last_poll, poll)
    THEN LET f == FlushCurrentEvent(w, last_poll, rules, dbfail)
         IN  IF f.exc # "none" THEN f ELSE [f EXCEPT !.start = now]
    ELSE w

Apps == {"firefox", "Code"}
Titles == {"YouTube", "file.py"}
WinSamples == {NoWin, RaiseWin, Win("firefox", "YouTube"), Win("Code", "file.py"),
               Win("", "YouTube")}
IdleSamples == {DEFAULT_IDLE_THRESHOLD, DEFAULT_IDLE_THRESHOLD + 10000}
IdleProbes == {RaiseIdle} \cup {IdleMs(ms) : ms \in IdleSamples}
NoSample == [kind |-> "none"]
Steps(poll) == {poll * Sec, poll * JumpFactor * Sec,
                poll * JumpFactor * Sec + HalfSec}
WinLatencies == {0, Sec}
StopDelays == {HalfSec, Sec}

WatcherFields == [wm |-> wm_class, title |-> title, start |-> current_start,
                  idle |-> is_idle, events |-> events, cur |-> tracking_state,
                  exc |-> "none", n |-> 0, t |-> clock, ret |-> FALSE,
                  win |-> NoSample]

RefreshDue(now) == now - last_settings_refresh >= RefreshPeriod * Sec

\* lines 80-85 and the write-back of the fields; crashed: the exception left
\* start().  env.obs: the history keeps what the probes answered (probe: the
\* idle probe or NoSample when _poll did not get to it); env.tmax: the last
\* clock reading of the run
EndIteration(now, r, p, w, crashed, env, probe) ==
    /\ w.t <= env.tmax
    /\ clock' = w.t
    /\ poll_interval' = r.poll
    /\ idle_threshold' = r.thr
    /\ filter_rules' = r.rules
    /\ last_settings_refresh' = r.at
    /\ wm_class' = w.wm
    /\ title' = w.title
    /\ current_start' = w.start
    /\ is_idle' = w.idle
    /\ events' = w.events
    /\ tracking_state' = w.cur
    /\ is_paused' = p.is_paused
    /\ pause_until' = p.pause_until
    /\ last_poll_time' = IF w.exc = "none" THEN w.t ELSE last_poll_time
    /\ loop' = IF crashed THEN "crashed" ELSE "run"
    /\ last' = [op |-> "tick",
                jump |-> JumpDetected(now, last_poll_time, r.poll),
                exc |-> w.exc,
                inserted |-> Len(w.events) - Len(events),
                now |-> now,
                last_good |-> last_poll_time,
                paused |-> IF env.obs THEN p.is_paused ELSE FALSE,
                idle |-> IF env.obs THEN probe ELSE NoSample,
                win |-> IF env.obs THEN w.win ELSE NoSample,
                reload |-> IF env.obs THEN r.res ELSE "skipped",
                reload_at |-> IF ~env.obs THEN <<>>
                              ELSE IF r.res # "skipped" THEN <<now>>
                              ELSE IF "reload_at" \in DOMAIN last
                                   THEN last.reload_at ELSE <<>>]

\* One pass of the while loop, lines 66-85.  The sets {e} bind each
\* intermediate value once; the window is sampled only when _poll gets there.
\* env.wins: what the window probe can answer; env.lats: how long it takes
Iteration(dt, probe, dbfail, env) ==
    \E now \in {clock + dt} :
    \E rf \in (IF ~RefreshDue(now) THEN {"none"}
               ELSE IF "faults" \in DOMAIN env THEN env.faults
               ELSE RefreshFaults) :
    \E r \in {RefreshSettings([poll |-> poll_interval, thr |-> idle_threshold,
                               rules |-> filter_rules, at |-> last_settings_refresh,
                               res |-> "skipped"],
                              now, db_settings, db_rules, rf)} :
    \E wj \in {TimeJump([WatcherFields EXCEPT !.t = now], now, last_poll_time,
                        r.poll, r.rules, dbfail)} :
        IF wj.exc # "none"
        THEN EndIteration(now, r, [is_paused |-> is_paused, pause_until |-> pause_until],
                          wj, TRUE, env, NoSample)
        ELSE
        \E p \in {GetPaused(is_paused, pause_until, now)} :
        \E wi \in {PollIdle(wj, p.is_paused, GetIdleTime(probe), r.thr, now,
                            r.rules, dbfail)} :
            IF wi.ret
            THEN EndIteration(now, r, p, wi, FALSE, env,
                              IF p.is_paused THEN NoSample ELSE probe)
            ELSE \E win \in env.wins, wlat \in env.lats :
                 \E ww \in {PollWindow(wi, win, now + wlat, r.rules, dbfail)} :
                     EndIteration(now, r, p, ww, FALSE, env, probe)

\* any desktop: every answer of the window probe, up to the time MaxTime
AnyDesktop(obs) == [obs |-> obs, wins |-> WinSamples, lats |-> WinLatencies,
                    tmax |-> MaxTime]

\* one iteration; obs as in EndIteration
TickWith(obs) ==
    /\ running /\ loop = "run"
    /\ n_ticks < MaxTicks
    /\ n_ticks' = n_ticks + 1
    /\ \E dt \in Steps(poll_interval), probe \in IdleProbes, dbfail \in 0..2 :
            Iteration(dt, probe, dbfail, AnyDesktop(obs))
    /\ UNCHANGED <<running, n_stops, db_rules, db_settings>>
    /\ UNCHANGED api_vars

Tick == TickWith(FALSE)

\* the same iteration, with the answers of the probes kept in the history
TickObserved == TickWith(TRUE)

---------------------------------------------------------------------------
\* Watcher.stop, run by the signal handler's task

\* dt: the time since the last clock reading; dbfail = 1: the insert fails
StopAfter(dt, dbfail) ==
    \E now \in {clock + dt} :
    \E f \in {FlushCurrentEvent([WatcherFields EXCEPT !.t = now], now,
                                 filter_rules, dbfail)} :
        /\ now <= MaxTime
        /\ clock' = now
        /\ running' = FALSE
        /\ loop' = "done"
        /\ current_start' = f.start
        /\ events' = f.events
        /\ n_stops' = n_stops + 1
        /\ last' = [op |-> "stop", jump |-> FALSE, exc |-> f.exc,
                    inserted |-> Len(f.events) - Len(events),
                    duration |-> now - current_start]
        /\ UNCHANGED <<wm_class, title, last_poll_time, is_idle, filter_rules,
                       poll_interval, idle_threshold, last_settings_refresh,
                       is_paused, pause_until, tracking_state, db_rules,
                       db_settings, n_ticks>>
        /\ UNCHANGED api_vars

\* the first signal, while the loop sleeps
Stop ==
    /\ loop = "run"
    /\ \E dt \in StopDelays, dbfail \in 0..1 : StopAfter(dt, dbfail)

\* a further signal before the process has ended
StopAgain ==
    /\ loop = "done"
    /\ n_stops < MaxStops
    /\ \E dt \in StopDelays, dbfail \in 0..1 : StopAfter(dt, dbfail)

---------------------------------------------------------------------------
\* api.pause_tracking / api.resume_tracking

PauseTracking ==
    /\ loop = "run"
    /\ ~is_paused
    /\ is_paused' = TRUE
    /\ pause_until' = 0
    /\ UNCHANGED <<clock, db_rules, db_settings, last>>
    /\ UNCHANGED watcher_vars
    /\ UNCHANGED api_vars

ResumeTracking ==
    /\ loop = "run"
    /\ is_paused
    /\ is_paused' = FALSE
    /\ pause_until' = 0
    /\ UNCHANGED <<clock, db_rules, db_settings, last>>
    /\ UNCHANGED watcher_vars
    /\ UNCHANGED api_vars

---------------------------------------------------------------------------
\* api._get_matched_category

Cat(name, wmp, tp, cs) ==
    [name |-> name, wm_class_pattern |-> wmp, title_pattern |-> tp,
     is_case_sensitive |-> cs]

\* the seeded categories whose patterns bear on the strings of the model,
\* in the order of get_categories (ORDER BY name)
DEFAULT_CATEGORIES ==
    << Cat("Browser", "firefox", "", FALSE),
       Cat("Editor", "code", "", FALSE),
       Cat("Media", "", "YouTube", FALSE) >>

NoQuery == [wm_class |-> "", title |-> "", now |-> 0]
NoResult == [out |-> "none", idx |-> 0]
Uncategorized == [out |-> "uncategorized", idx |-> 0]

\* one re.search of a pass: the input is lowered when the category is not
\* case sensitive
CatSearch(cat, pattern, s) ==
    IF cat.is_case_sensitive
    THEN ReSearch(pattern, s, FALSE)
    ELSE ReSearch(pattern, Lower(s), TRUE)

\* first pass, lines 546-558: [out |-> "cat", idx |-> i] is "return cat" for
\* the i-th category
RECURSIVE TitlePass(_, _, _)
TitlePass(cats, i, t) ==
    IF i > Len(cats) THEN NoResult
    ELSE IF cats[i].title_pattern = "" THEN TitlePass(cats, i + 1, t)
    ELSE LET m == CatSearch(cats[i], cats[i].title_pattern, t)
         IN  CASE m = "error" -> [out |-> "raise", idx |-> i]
               [] m = "yes" -> [out |-> "cat", idx |-> i]
               [] OTHER -> TitlePass(cats, i + 1, t)

\* second pass, lines 560-572
RECURSIVE WmClassPass(_, _, _)
WmClassPass(cats, i, wm) ==
    IF i > Len(cats) THEN NoResult
    ELSE IF cats[i].wm_class_pattern = "" THEN WmClassPass(cats, i + 1, wm)
    ELSE LET m == CatSearch(cats[i], cats[i].wm_class_pattern, wm)
         IN  CASE m = "error" -> [out |-> "raise", idx |-> i]
               [] m = "yes" -> [out |-> "cat", idx |-> i]
               [] OTHER -> WmClassPass(cats, i + 1, wm)

\* every category tested once, on its title pattern or its app pattern
RECURSIVE GetMatchedCategory_OnePass(_, _, _)
GetMatchedCategory_OnePass(wm, t, cats) ==
    IF cats = <<>> THEN Uncategorized
    ELSE LET c == <<Head(cats)>>
             first == IF TitlePass(c, 1, t).out # "none" THEN TitlePass(c, 1, t)
                      ELSE WmClassPass(c, 1, wm)
             rest == GetMatchedCategory_OnePass(wm, t, Tail(cats))
         IN  IF first.out # "none" THEN first
             ELSE IF rest.out = "uncategorized" THEN rest
             ELSE [rest EXCEPT !.idx = @ + 1]

GetMatchedCategory(wm, t, cats) ==
    LET p1 == TitlePass(cats, 1, t)
    IN  IF p1.out # "none" THEN p1
        ELSE LET p2 == WmClassPass(cats, 1, wm)
             IN  IF p2.out # "none" THEN p2 ELSE Uncategorized

---------------------------------------------------------------------------
\* db.get_summary_range for one day on one device; every stored event is of
\* that day and the android_events table is empty

RECURSIVE SumSecs(_)
SumSecs(evs) == IF evs = <<>> THEN 0 ELSE Head(evs).duration_secs + SumSecs(Tail(evs))

MinOf(S) == CHOOSE x \in S : \A y \in S : x <= y
MaxOf(S) == CHOOSE x \in S : \A y \in S : x >= y

\* WHERE is_idle = 0 AND wm_class != ''
InSummary(e) == ~e.is_idle /\ e.wm_class # ""

\* one row of GROUP BY wm_class, title
GroupRow(evs, c, t) ==
    LET SameKey(e) == InSummary(e) /\ e.wm_class = c /\ e.title = t
        g == SelectSeq(evs, SameKey)
    IN  [wm_class |-> c, title |-> t,
         total_secs |-> SumSecs(g),
         event_count |-> Len(g),
         first_seen |-> MinOf({g[i].timestamp : i \in DOMAIN g}),
         last_seen |-> MaxOf({g[i].end_timestamp : i \in DOMAIN g})]

GroupRows(evs) ==
    {GroupRow(evs, evs[i].wm_class, evs[i].title) :
         i \in {j \in DOMAIN evs : InSummary(evs[j])}}

Descending(rows) ==
    \A i, j \in DOMAIN rows : i < j => rows[i].total_secs >= rows[j].total_secs

\* ORDER BY total_secs DESC: the order of rows of equal total is not fixed
GetSummaryRange(evs) ==
    LET G == GroupRows(evs)
    IN  {rows \in [1..Cardinality(G) -> G] :
             /\ {rows[i] : i \in DOMAIN rows} = G
             /\ Descending(rows)}

---------------------------------------------------------------------------
\* api.summary for today

\* rows.sort(key=total_secs, reverse=True): stable, rows of equal total
\* keep their order
RECURSIVE InsertDesc(_, _)
InsertDesc(sorted, r) ==
    IF sorted = <<>> THEN <<r>>
    ELSE IF Head(sorted).total_secs >= r.total_secs
         THEN <<Head(sorted)>> \o InsertDesc(Tail(sorted), r)
         ELSE <<r>> \o sorted

RECURSIVE SortDesc(_)
SortDesc(rows) ==
    IF rows = <<>> THEN <<>>
    ELSE InsertDesc(SortDesc(SubSeq(rows, 1, Len(rows) - 1)), rows[Len(rows)])

\* a condition that lets the idle state through
Blendable_IdleToo(curr) ==
    /\ ~IsNone(curr)
    /\ curr.wm_class # ""

\* line 181: the published state takes part in the summary
Blendable(curr) ==
    /\ ~IsNone(curr)
    /\ ~curr.is_idle
    /\ curr.wm_class # ""
    /\ curr.wm_class # IDLE

\* the for loop of lines 187-193: the first row with the key of curr
FoundRow(rows, curr) ==
    LET hits == {i \in DOMAIN rows : /\ rows[i].wm_class = curr.wm_class
                                      /\ rows[i].title = curr.title}
    IN  IF hits = {} THEN 0 ELSE MinOf(hits)

\* the blend without the sort of line 205
Blend_Unsorted(rows, curr, now) ==
    IF ~Blendable(curr) THEN rows
    ELSE IF "timestamp" \notin DOMAIN curr THEN rows
    ELSE LET duration == now - curr.timestamp
             k == FoundRow(rows, curr)
         IN  IF k # 0
             THEN [rows EXCEPT ![k] = [@ EXCEPT !.total_secs = @ + duration,
                                                 !.event_count = @ + 1,
                                                 !.last_seen = now]]
             ELSE Append(rows, [wm_class |-> curr.wm_class,
                                title |-> curr.title,
                                total_secs |-> duration,
                                event_count |-> 1,
                                first_seen |-> curr.timestamp,
                                last_seen |-> now])

\* lines 179-207; a state without "timestamp" raises KeyError inside the try,
\* which leaves the rows as they were read
Blend(rows, curr, now) ==
    IF ~Blendable(curr) THEN rows
    ELSE IF "timestamp" \notin DOMAIN curr THEN rows
    ELSE LET duration == now - curr.timestamp
             k == FoundRow(rows, curr)
         IN  SortDesc(
               IF k # 0
               THEN [rows EXCEPT ![k] = [@ EXCEPT !.total_secs = @ + duration,
                                                   !.event_count = @ + 1,
                                                   !.last_seen = now]]
               ELSE Append(rows, [wm_class |-> curr.wm_class,
                                  title |-> curr.title,
                                  total_secs |-> duration,
                                  event_count |-> 1,
                                  first_seen |-> curr.timestamp,
                                  last_seen |-> now]))

\* lines 209-216: every row gets the name of its category; an exception of
\* _get_matched_category leaves the handler
CategoryName(cats, m) == IF m.out = "cat" THEN cats[m.idx].name ELSE "Uncategorized"

Enrich(rows, cats) ==
    LET m == [i \in DOMAIN rows |->
                 GetMatchedCategory(rows[i].wm_class, rows[i].title, cats)]
    IN  IF \E i \in DOMAIN rows : m[i].out = "raise"
        THEN [out |-> "raise", rows |-> <<>>]
        ELSE [out |-> "rows",
              rows |-> [i \in DOMAIN rows |->
                           [wm_class |-> rows[i].wm_class,
                            title |-> rows[i].title,
                            total_secs |-> rows[i].total_secs,
                            event_count |-> rows[i].event_count,
                            first_seen |-> rows[i].first_seen,
                            last_seen |-> rows[i].last_seen,
                            category_name |-> CategoryName(cats, m[i])]]]

\* GET /api/summary for today, served at the time now
SummaryCall(now) ==
    /\ \E rows \in GetSummaryRange(events) :
           api_result' = Enrich(Blend(rows, tracking_state, now), categories)
    /\ api_query' = [api_query EXCEPT !.now = now]
    /\ last' = [op |-> "summary", jump |-> FALSE, exc |-> "none", inserted |-> 0]
    /\ UNCHANGED <<clock, db_rules, db_settings, categories>>
    /\ UNCHANGED watcher_vars
    /\ UNCHANGED side_vars
    /\ UNCHANGED <<is_paused, pause_until>>

Summary ==
    /\ last.op = "init"
    /\ SummaryCall(api_query.now)

\* daily totals that add the time of the published open segment
DailyTotals_Live(evs) ==
    LET Active(e) == ~e.is_idle
        Idle(e) == e.is_idle
        open == IF ~IsNone(tracking_state) /\ "timestamp" \in DOMAIN tracking_state
                THEN 1 ELSE 0
    IN  IF evs = <<>> /\ open = 0 THEN <<>>
        ELSE <<[active_secs |-> SumSecs(SelectSeq(evs, Active)) + open,
                idle_secs |-> SumSecs(SelectSeq(evs, Idle)),
                event_count |-> Len(evs)]>>

\* db.get_daily_totals for the one day of the stored events, and
\* GET /api/history
DailyTotals(evs) ==
    LET Active(e) == ~e.is_idle
        Idle(e) == e.is_idle
    IN  IF evs = <<>> THEN <<>>
        ELSE <<[active_secs |-> SumSecs(SelectSeq(evs, Active)),
                idle_secs |-> SumSecs(SelectSeq(evs, Idle)),
                event_count |-> Len(evs)]>>

HistoryCall ==
    /\ api_result' = [out |-> "history", rows |-> DailyTotals(events)]
    /\ last' = [op |-> "history", jump |-> FALSE, exc |-> "none", inserted |-> 0]
    /\ UNCHANGED <<clock, db_rules, db_settings, categories, api_query>>
    /\ UNCHANGED watcher_vars
    /\ UNCHANGED side_vars
    /\ UNCHANGED <<is_paused, pause_until>>

---------------------------------------------------------------------------
\* The watcher as started by Watcher.start, lines 45-64

Rule(type, c, t) == [rule_type |-> type, wm_class_pattern |-> c, title_pattern |-> t]

RuleLists ==
    { <<>>,
      <<Rule("ignore", "firefox", ""), Rule("redact", "", AnyPattern)>>,
      <<Rule("ignore", "firefox", ""), Rule("redact", "", BadPattern)>> }

DefaultSettings == [poll_interval |-> IntValue(DEFAULT_POLL_INTERVAL),
                    idle_threshold |-> IntValue(DEFAULT_IDLE_THRESHOLD \div 1000)]

\* the handlers of api.py that read db.get_current_state(): no request yet
NoReader == [pc |-> "none"]

\* no tick is suspended in _flush_current_event
NoPending == [pc |-> "none"]

\* the two startups (Watcher.start and the startup event of the API server)
Callers == {"watcher", "api"}
NoCall == [pc |-> "none", count |-> 0, n |-> 0]

\* no Windows watcher runs
NoWindows == [loop |-> "none"]

InitSide ==
    /\ reader = NoReader
    /\ init_calls = [c \in Callers |-> NoCall]
    /\ android_events = {}
    /\ pending = NoPending
    /\ windows = NoWindows

\* the watcher just started, over the filter rules stored in the table
Started(rules) ==
    /\ clock = 0
    /\ running = TRUE
    /\ loop = "run"
    /\ wm_class = ""
    /\ title = ""
    /\ current_start = 0
    /\ last_poll_time = 0
    /\ is_idle = FALSE
    /\ filter_rules = <<>>
    /\ poll_interval = DEFAULT_POLL_INTERVAL
    /\ idle_threshold = DEFAULT_IDLE_THRESHOLD
    /\ last_settings_refresh = 0 - RefreshPeriod * Sec
    /\ is_paused = FALSE
    /\ pause_until = 0
    /\ tracking_state = NoState
    /\ events = <<>>
    /\ db_rules = rules
    /\ db_settings = DefaultSettings
    /\ n_ticks = 0
    /\ n_stops = 0
    /\ categories = DEFAULT_CATEGORIES
    /\ api_query = NoQuery
    /\ api_result = NoResult
    /\ InitSide
    /\ last = [op |-> "init", jump |-> FALSE, exc |-> "none", inserted |-> 0]

Init == \E rules \in RuleLists : Started(rules)

Next == Tick \/ Stop \/ PauseTracking \/ ResumeTracking

Spec == Init /\ [][Next]_vars

\* the watcher with the probes' answers in the history
NextObserved == TickObserved \/ Stop \/ PauseTracking \/ ResumeTracking

SpecObserved == Init /\ [][NextObserved]_vars

\* A working session: the desktop shows one window, sampled at once on
\* every tick, until the idle probe reports more than the threshold; then
\* the dashboard asks for the summary and the history of the day
ScenarioTicks == 25
ScenarioWins == {Win("Editor", "file.py"), Win("Code", "file.py")}
ScenarioIdle == IdleMs(DEFAULT_IDLE_THRESHOLD + 10000)

InitScenario ==
    /\ Init
    /\ db_rules = <<>>

ScenarioDesktop ==
    [obs |-> FALSE,
     wins |-> IF wm_class = "" THEN ScenarioWins ELSE {Win(wm_class, title)},
     lats |-> {0},
     tmax |-> ScenarioTicks * DEFAULT_POLL_INTERVAL * Sec]

ScenarioTick ==
    /\ running /\ loop = "run"
    /\ ~is_idle
    /\ n_ticks < ScenarioTicks
    /\ n_ticks' = n_ticks + 1
    /\ \E probe \in (IF n_ticks = 0 THEN {IdleMs(0)} ELSE {IdleMs(0), ScenarioIdle}) :
           Iteration(IF n_ticks = 0 THEN 0 ELSE poll_interval * Sec, probe, 0,
                     ScenarioDesktop)
    /\ UNCHANGED <<running, n_stops, db_rules, db_settings>>
    /\ UNCHANGED api_vars

ScenarioSummary ==
    /\ is_idle
    /\ last.op = "tick"
    /\ SummaryCall(clock)

ScenarioHistory ==
    /\ last.op = "summary"
    /\ HistoryCall

NextScenario == ScenarioTick \/ ScenarioSummary \/ ScenarioHistory

SpecScenario == InitScenario /\ [][NextScenario]_vars

\* A tick whose window changed is suspended in _flush_current_event while it
\* awaits db.insert_event (watcher.py line 315).  Until it resumes, the task
\* that the signal handler made of stop() can run in the same event loop
\* (lines 58-61), and handlers of the API thread can read the events table
\* and the published state

MaxRaceTicks == 3

RaceWins == {Win("Code", "file.py"), Win("firefox", "YouTube")}

InitRace == Started(<<>>)

RaceDesktop == [obs |-> FALSE, wins |-> RaceWins, lats |-> {0},
                tmax |-> MaxRaceTicks * DEFAULT_POLL_INTERVAL * Sec]

\* an iteration that nothing interleaves with
RaceTick ==
    /\ running /\ loop = "run"
    /\ pending = NoPending
    /\ reader = NoReader
    /\ n_ticks < MaxRaceTicks
    /\ n_ticks' = n_ticks + 1
    /\ Iteration(poll_interval * Sec, IdleMs(0), 0, RaceDesktop)
    /\ UNCHANGED <<running, n_stops, db_rules, db_settings>>
    /\ UNCHANGED api_vars

\* _poll lines 172-184 and _flush_current_event lines 280-315: the window
\* changed and the flush reaches the insert
PollSuspend ==
    /\ running /\ loop = "run"
    /\ pending = NoPending
    /\ n_ticks < MaxRaceTicks
    /\ wm_class \notin Sentinels \cup {""}
    /\ ~is_idle /\ ~is_paused
    /\ \E now \in {clock + poll_interval * Sec}, win \in RaceWins :
       \E f \in {ApplyFilterRules(filter_rules, wm_class, title)} :
           /\ ~RefreshDue(now)
           /\ ~JumpDetected(now, last_poll_time, poll_interval)
           /\ win.wm_class # wm_class \/ win.title # title
           /\ ~SubSecond(now - current_start)
           /\ f.out \notin {"ignore", "raise"}
           /\ pending' = [pc |-> "insert", end |-> now, win |-> win,
                          ev |-> InsertedEvent([start |-> current_start,
                                                wm |-> wm_class], now, f.title)]
           /\ clock' = now
    /\ n_ticks' = n_ticks + 1
    /\ UNCHANGED <<running, loop, wm_class, title, current_start, last_poll_time,
                   is_idle, filter_rules, poll_interval, idle_threshold,
                   last_settings_refresh, is_paused, pause_until, tracking_state,
                   events, db_rules, db_settings, n_stops, categories, api_query,
                   api_result, reader, init_calls, android_events, windows,
                   last>>

\* db.insert_event commits the row
InsertCommit ==
    /\ pending.pc = "insert"
    /\ events' = Append(events, pending.ev)
    /\ pending' = [pending EXCEPT !.pc = "resume"]
    /\ UNCHANGED <<clock, running, loop, wm_class, title, current_start,
                   last_poll_time, is_idle, filter_rules, poll_interval,
                   idle_threshold, last_settings_refresh, is_paused, pause_until,
                   tracking_state, db_rules, db_settings, n_ticks, n_stops,
                   categories, api_query, api_result, reader, init_calls,
                   android_events, windows, last>>

\* the tick goes on: line 330, then _poll lines 185-201 and line 82; the
\* loop ends when stop() has cleared _running
PollResume ==
    /\ pending.pc = "resume"
    /\ wm_class' = pending.win.wm_class
    /\ title' = pending.win.title
    /\ current_start' = clock
    /\ tracking_state' = ActiveState(pending.win.wm_class, pending.win.title, clock)
    /\ last_poll_time' = clock
    /\ loop' = IF running THEN "run" ELSE "done"
    /\ pending' = NoPending
    /\ last' = [op |-> "tick", jump |-> FALSE, exc |-> "none", inserted |-> 1,
                now |-> pending.end, last_good |-> last_poll_time,
                paused |-> FALSE, idle |-> NoSample, win |-> NoSample,
                reload |-> "skipped", reload_at |-> <<>>]
    /\ UNCHANGED <<clock, running, is_idle, filter_rules, poll_interval,
                   idle_threshold, last_settings_refresh, is_paused, pause_until,
                   events, db_rules, db_settings, n_ticks, n_stops, categories,
                   api_query, api_result, reader, init_calls, android_events,
                   windows>>

\* stop() run by the signal handler's task while the tick is suspended,
\* lines 114-121: the fields are those the tick left
StopSuspended ==
    /\ running
    /\ pending.pc \in {"insert", "resume"}
    /\ \E now \in {clock + dt : dt \in StopDelays} :
       \E f \in {FlushCurrentEvent([WatcherFields EXCEPT !.t = now], now,
                                    filter_rules, 0)} :
           /\ clock' = now
           /\ running' = FALSE
           /\ current_start' = f.start
           /\ events' = f.events
           /\ n_stops' = n_stops + 1
           /\ last' = [op |-> "stop", jump |-> FALSE, exc |-> f.exc,
                       inserted |-> Len(f.events) - Len(events),
                       duration |-> now - current_start]
    /\ UNCHANGED <<loop, wm_class, title, last_poll_time, is_idle, filter_rules,
                   poll_interval, idle_threshold, last_settings_refresh,
                   is_paused, pause_until, tracking_state, db_rules, db_settings,
                   n_ticks>>
    /\ UNCHANGED api_vars

\* stop() while the loop sleeps
StopAsleep ==
    /\ pending = NoPending
    /\ reader = NoReader
    /\ Stop

\* api.summary line 177: the rows of today are read
SummaryReadRows ==
    /\ reader = NoReader
    /\ last.op # "summary"
    /\ loop = "run"
    /\ reader' = [pc |-> "summary", events |-> events]
    /\ UNCHANGED <<clock, running, loop, wm_class, title, current_start,
                   last_poll_time, is_idle, filter_rules, poll_interval,
                   idle_threshold, last_settings_refresh, is_paused, pause_until,
                   tracking_state, events, db_rules, db_settings, n_ticks,
                   n_stops, categories, api_query, api_result, init_calls,
                   android_events, pending, windows, last>>

\* lines 180-216: the published state is read and blended into the rows
SummaryReadState ==
    /\ reader.pc = "summary"
    /\ \E rows \in GetSummaryRange(reader.events) :
           api_result' = Enrich(Blend(rows, tracking_state, clock), categories)
    /\ api_query' = [api_query EXCEPT !.now = clock]
    /\ reader' = NoReader
    /\ last' = [op |-> "summary", jump |-> FALSE, exc |-> "none", inserted |-> 0,
                rows_seen |-> reader.events, curr |-> tracking_state,
                stored |-> events]
    /\ UNCHANGED <<clock, running, loop, wm_class, title, current_start,
                   last_poll_time, is_idle, filter_rules, poll_interval,
                   idle_threshold, last_settings_refresh, is_paused, pause_until,
                   tracking_state, events, db_rules, db_settings, n_ticks,
                   n_stops, categories, init_calls, android_events, pending, windows>>

NextRace ==
    \/ RaceTick
    \/ PollSuspend
    \/ InsertCommit
    \/ PollResume
    \/ StopSuspended
    \/ StopAsleep
    \/ SummaryReadRows
    \/ SummaryReadState

SpecRace == InitRace /\ [][NextRace]_vars

\* Hot reload: the loop runs at its cadence while POST /api/update_settings
\* stores new values (any strings) and the storage reads of a reload can fail

MaxReloadTicks == 62

\* the strings stored for poll_interval and idle_threshold (seconds)
SettingsUniverse ==
    {[poll_interval |-> p, idle_threshold |-> t] :
        p \in {IntValue(DEFAULT_POLL_INTERVAL), IntValue(1), NotAnInt},
        t \in {IntValue(DEFAULT_IDLE_THRESHOLD \div 1000), IntValue(60), NotAnInt}}

InitReload == \E rules \in {<<>>, <<Rule("redact", "firefox", "")>>} : Started(rules)

\* the user changes the window during the first ticks only
ReloadDesktop ==
    [obs |-> TRUE,
     wins |-> IF n_ticks <= 1
              THEN {Win("Code", "file.py"), Win("firefox", "YouTube")}
              ELSE {Win(wm_class, title)},
     lats |-> {0},
     tmax |-> MaxReloadTicks * DEFAULT_POLL_INTERVAL * Sec]

\* an iteration that starts one poll interval after the one before it: the
\* sleep of line 85 with the poll interval then in force
ReloadTick ==
    /\ running /\ loop = "run"
    /\ n_ticks < MaxReloadTicks
    /\ n_ticks' = n_ticks + 1
    /\ Iteration(IF n_ticks = 0 THEN 0 ELSE poll_interval * Sec, IdleMs(0), 0,
                 ReloadDesktop)
    /\ UNCHANGED <<running, n_stops, db_rules, db_settings>>
    /\ UNCHANGED api_vars

\* api.update_settings, lines 448-452
UpdateSettings ==
    /\ loop = "run"
    /\ db_settings' \in SettingsUniverse \ {db_settings}
    /\ UNCHANGED <<clock, db_rules, last, is_paused, pause_until>>
    /\ UNCHANGED watcher_vars
    /\ UNCHANGED api_vars

NextReload == ReloadTick \/ UpdateSettings

SpecReload == InitReload /\ [][NextReload]_vars

---------------------------------------------------------------------------
\* watcher_windows.py: the Windows watcher, run beside the Linux one over the
\* same clock readings, samples and storage.  Its fields are the record
\* windows = [wm, title, start, idle, events, last_poll, poll, thr, at, loop,
\*            exc, n, t]; exc, n and t are as in WatcherFields
MaxWindowsTicks == 3

\* a flush that closes the segment but leaves its start where it was
WindowsFlushCurrentEvent_NoAdvance(v, now, dbfail) ==
    IF v.wm = "" THEN [v EXCEPT !.start = now]
    ELSE IF SubSecond(now - v.start) THEN v
    ELSE IF v.n + 1 = dbfail THEN [v EXCEPT !.exc = "db", !.n = @ + 1]
    ELSE [v EXCEPT !.events = Append(@, InsertedEvent(v, now, v.title)),
                   !.n = @ + 1]

\* WatcherWindows._flush_current_event, lines 211-235: no filter rules
WindowsFlushCurrentEvent(v, now, dbfail) ==
    IF v.wm = "" THEN [v EXCEPT !.start = now]
    ELSE IF SubSecond(now - v.start) THEN v
    ELSE IF v.n + 1 = dbfail THEN [v EXCEPT !.exc = "db", !.n = @ + 1]
    ELSE [v EXCEPT !.events = Append(@, InsertedEvent(v, now, v.title)),
                   !.start = now, !.n = @ + 1]

\* WatcherWindows._poll, lines 164-209.  idle_ms: get_idle_time_ms() at t0;
\* win: get_active_window_info() at t1, None or a dict
WindowsPoll(v, idle_ms, t0, win, t1, dbfail) ==
    LET was_idle == v.idle
        v1 == [v EXCEPT !.idle = idle_ms > v.thr]
    IN  IF v1.idle /\ ~was_idle
        THEN LET f == WindowsFlushCurrentEvent(v1, t0, dbfail)
             IN  IF f.exc # "none" THEN f
                 ELSE [f EXCEPT !.wm = IDLE, !.title = "Idle", !.start = t0]
        ELSE
        LET v2 == IF was_idle /\ ~v1.idle
                  THEN WindowsFlushCurrentEvent(v1, t0, dbfail)
                  ELSE v1
        IN  IF v2.exc # "none" \/ v2.idle THEN v2
            ELSE
            LET v3 == [v2 EXCEPT !.t = t1]
            IN  IF win.kind = "absent" THEN v3
                ELSE IF win.wm_class # v3.wm \/ win.title # v3.title
                THEN LET f == WindowsFlushCurrentEvent(v3, t1, dbfail)
                     IN  IF f.exc # "none" THEN f
                         ELSE [f EXCEPT !.wm = win.wm_class,
                                        !.title = win.title, !.start = t1]
                ELSE v3

\* WatcherWindows._refresh_settings, lines 137-156; fault: get_settings fails
WindowsRefreshSettings(v, now, settings, fault) ==
    IF now - v.at < RefreshPeriod * Sec THEN v
    ELSE IF fault = "get_settings" \/ ~IsInt(settings.poll_interval)
         THEN [v EXCEPT !.at = now]
    ELSE IF ~IsInt(settings.idle_threshold)
         THEN [v EXCEPT !.poll = settings.poll_interval.v, !.at = now]
    ELSE [v EXCEPT !.poll = settings.poll_interval.v,
                   !.thr = settings.idle_threshold.v * 1000, !.at = now]

\* WatcherWindows.start, lines 112-135: one pass of the while loop
WindowsIteration(v, now, settings, fault, idle_ms, win, t1, dbfail) ==
    LET r == [WindowsRefreshSettings(v, now, settings, fault)
                  EXCEPT !.exc = "none", !.n = 0, !.t = now]
        j == IF JumpDetected(now, r.last_poll, r.poll)
             THEN LET f == WindowsFlushCurrentEvent(r, r.last_poll, dbfail)
                  IN  IF f.exc # "none" THEN f ELSE [f EXCEPT !.start = now]
             ELSE r
    IN  IF j.exc # "none" THEN [j EXCEPT !.loop = "crashed"]
        ELSE LET q == WindowsPoll(j, idle_ms, now, win, t1, dbfail)
             IN  [q EXCEPT !.last_poll = IF q.exc = "none" THEN q.t ELSE @]

\* WatcherWindows.__init__ and start() up to the loop, lines 73-110
WindowsStarted ==
    [wm |-> "", title |-> "", start |-> 0, idle |-> FALSE, events |-> <<>>,
     last_poll |-> 0, poll |-> DEFAULT_POLL_INTERVAL,
     thr |-> DEFAULT_IDLE_THRESHOLD, at |-> 0 - RefreshPeriod * Sec,
     loop |-> "run", exc |-> "none", n |-> 0, t |-> 0]

\* what get_active_window_info returns: None without a foreground window, a
\* dict with an empty wm_class when the process cannot be opened
WindowsWinSamples == {NoWin, Win("firefox", "YouTube"), Win("Code", "file.py"),
                      Win("", "YouTube")}

InitWindows == Started(<<>>)

\* the two watchers start at the same clock reading
WindowsStart ==
    /\ windows = NoWindows
    /\ n_ticks = 0
    /\ windows' = WindowsStarted
    /\ UNCHANGED <<clock, db_rules, db_settings, last, is_paused, pause_until>>
    /\ UNCHANGED watcher_vars
    /\ UNCHANGED <<categories, api_query, api_result, reader, init_calls,
                   android_events, pending>>

\* one iteration of each loop over the same clock readings, idle sample,
\* window sample and storage faults
WindowsTick ==
    /\ running /\ loop = "run"
    /\ windows.loop = "run"
    /\ n_ticks < MaxWindowsTicks
    /\ n_ticks' = n_ticks + 1
    /\ \E dt \in Steps(poll_interval), ms \in IdleSamples, dbfail \in 0..2,
          win \in WindowsWinSamples, wlat \in WinLatencies :
       \E rf \in (IF RefreshDue(clock + dt) THEN RefreshFaults ELSE {"none"}) :
           /\ Iteration(dt, IdleMs(ms), dbfail,
                        [obs |-> TRUE, wins |-> {win}, lats |-> {wlat},
                         tmax |-> MaxTime, faults |-> {rf}])
           /\ windows' = WindowsIteration(windows, clock + dt, db_settings,
                                          IF rf = "get_filter_rules"
                                          THEN "none" ELSE rf,
                                          ms, win, clock + dt + wlat, dbfail)
    /\ UNCHANGED <<running, n_stops, db_rules, db_settings>>
    /\ UNCHANGED <<categories, api_query, api_result, reader, init_calls,
                   android_events, pending>>

\* the settings are saved before the watchers load them
WindowsSettings ==
    /\ windows = NoWindows
    /\ UpdateSettings

NextWindows == WindowsStart \/ WindowsTick \/ WindowsSettings

SpecWindows == InitWindows /\ [][NextWindows]_vars

\* A handler of the API thread reads the published state while the watcher
\* thread runs: api.py lines 180-200 (summary) and 226-232 (timeline).  The
\* handler binds curr once and then reads the fields of that dict; the
\* watcher never changes a dict it has published (watcher.py lines 133, 154
\* and 190 build a new one each time)
FieldOrder == <<"is_idle", "wm_class", "timestamp", "title">>

\* curr.get(f); the Paused state has no timestamp
Get(curr, f) == IF f \in DOMAIN curr THEN curr[f] ELSE "missing"

\* a handler that asks db for the state again at every field
ReadField_Live(curr, live, f) == Get(live, f)

\* curr: the dict bound at line 180 or 226; live: the dict db holds now
ReadField(curr, live, f) == Get(curr, f)

\* what a handler would read of the state st
Fields(st) == [i \in DOMAIN FieldOrder |-> Get(st, FieldOrder[i])]

\* db.get_current_state(), lines 180 and 226; seen: the states that were
\* published while the handler ran (history)
GetCurrentState ==
    /\ reader.pc = "none"
    /\ reader' = [pc |-> IF IsNone(tracking_state) THEN "done" ELSE "read",
                  curr |-> tracking_state, got |-> <<>>,
                  seen |-> {tracking_state}]
    /\ UNCHANGED <<clock, db_rules, db_settings, categories, api_query,
                   api_result, init_calls, android_events, pending, windows, last>>
    /\ UNCHANGED watcher_vars
    /\ UNCHANGED <<is_paused, pause_until>>

\* the next field of curr
ReadNext ==
    /\ reader.pc = "read"
    /\ LET f == FieldOrder[Len(reader.got) + 1]
           got == Append(reader.got, ReadField(reader.curr, tracking_state, f))
       IN  reader' = [reader EXCEPT
                         !.got = got,
                         !.seen = @ \cup {tracking_state},
                         !.pc = IF Len(got) = Len(FieldOrder) THEN "done"
                                ELSE "read"]
    /\ UNCHANGED <<clock, db_rules, db_settings, categories, api_query,
                   api_result, init_calls, android_events, pending, windows, last>>
    /\ UNCHANGED watcher_vars
    /\ UNCHANGED <<is_paused, pause_until>>

\* the watcher next to the handler: regular ticks, storage in order
SnapshotDesktop == [obs |-> FALSE, wins |-> WinSamples, lats |-> {0},
                    tmax |-> MaxTime]

SnapshotTick ==
    /\ running /\ loop = "run"
    /\ n_ticks < MaxTicks
    /\ n_ticks' = n_ticks + 1
    /\ \E probe \in {IdleMs(0), ScenarioIdle} :
           Iteration(poll_interval * Sec, probe, 0, SnapshotDesktop)
    /\ UNCHANGED <<running, n_stops, db_rules, db_settings>>
    /\ UNCHANGED api_vars

NextSnapshot ==
    SnapshotTick \/ PauseTracking \/ ResumeTracking \/ GetCurrentState \/ ReadNext

SpecSnapshot == Init /\ [][NextSnapshot]_vars

\* The two startups on a fresh database.  init_db (db.py lines 137-189)
\* counts the categories outside any transaction (line 146), inserts the
\* defaults when the count was 0 (lines 147-153) and commits at line 187;
\* each call has its own connection
MaxInits == 3

\* get_categories: the rows ORDER BY name
NameOrder == <<"Browser", "Editor", "Media">>

RECURSIVE OrderByName(_, _)
OrderByName(rows, k) ==
    IF k > Len(NameOrder) THEN <<>>
    ELSE LET Named(r) == r.name = NameOrder[k]
         IN  SelectSeq(rows, Named) \o OrderByName(rows, k + 1)

\* lines 147-153 and 187: count is what line 146 read, cats the table at
\* the commit
Seeded(count, cats) ==
    IF count = 0 THEN OrderByName(cats \o DEFAULT_CATEGORIES, 1) ELSE cats

InitSeed ==
    /\ clock = 0
    /\ running = FALSE
    /\ loop = "run"
    /\ wm_class = ""
    /\ title = ""
    /\ current_start = 0
    /\ last_poll_time = 0
    /\ is_idle = FALSE
    /\ filter_rules = <<>>
    /\ poll_interval = DEFAULT_POLL_INTERVAL
    /\ idle_threshold = DEFAULT_IDLE_THRESHOLD
    /\ last_settings_refresh = 0 - RefreshPeriod * Sec
    /\ is_paused = FALSE
    /\ pause_until = 0
    /\ tracking_state = NoState
    /\ events = <<>>
    /\ db_rules = <<>>
    /\ db_settings = <<>>
    /\ n_ticks = 0
    /\ n_stops = 0
    /\ categories = <<>>
    /\ api_query = NoQuery
    /\ api_result = NoResult
    /\ InitSide
    /\ last = [op |-> "init", jump |-> FALSE, exc |-> "none", inserted |-> 0]

\* line 146: SELECT COUNT(*) FROM categories
InitDbCount(c) ==
    /\ init_calls[c].pc = "none"
    /\ init_calls[c].n < MaxInits
    /\ init_calls' = [init_calls EXCEPT ![c].pc = "counted",
                                        ![c].count = Len(categories)]
    /\ last' = [op |-> "count", jump |-> FALSE, exc |-> "none", inserted |-> 0]
    /\ UNCHANGED <<clock, db_rules, db_settings, categories, api_query,
                   api_result, reader, android_events, pending, windows>>
    /\ UNCHANGED watcher_vars
    /\ UNCHANGED <<is_paused, pause_until>>

\* lines 147-187: the inserts, the settings defaults and the commit
InitDbCommit(c) ==
    /\ init_calls[c].pc = "counted"
    /\ categories' = Seeded(init_calls[c].count, categories)
    /\ db_settings' = DefaultSettings
    /\ init_calls' = [init_calls EXCEPT ![c].pc = "none", ![c].n = @ + 1]
    /\ last' = [op |-> "init_db", jump |-> FALSE, exc |-> "none",
                inserted |-> Len(categories') - Len(categories)]
    /\ UNCHANGED <<clock, db_rules, api_query, api_result, reader,
                   android_events, pending, windows>>
    /\ UNCHANGED watcher_vars
    /\ UNCHANGED <<is_paused, pause_until>>

NextSeed == \E c \in Callers : InitDbCount(c) \/ InitDbCommit(c)

SpecSeed == InitSeed /\ [][NextSeed]_vars

\* The watcher on a wall clock that can be set back between two ticks
\* (datetime.now() is the local time: a correction of the clock, the end of
\* daylight saving time); storage in order
BackSteps == {0 - 3 * Sec}

TickBackward ==
    /\ running /\ loop = "run"
    /\ n_ticks < MaxTicks
    /\ n_ticks' = n_ticks + 1
    /\ \E dt \in Steps(poll_interval) \cup BackSteps, probe \in IdleProbes :
            Iteration(dt, probe, 0, AnyDesktop(FALSE))
    /\ UNCHANGED <<running, n_stops, db_rules, db_settings>>
    /\ UNCHANGED api_vars

NextBackward == TickBackward \/ Stop

SpecBackward == Init /\ [][NextBackward]_vars

\* the watcher with repeated signals
NextSignals == Next \/ StopAgain

SpecSignals == Init /\ [][NextSignals]_vars

---------------------------------------------------------------------------
\* _flush_current_event on its own: any rule list, any open segment

MaxRules == 2

RuleUniverse == {Rule(type, c, t) : type \in {"ignore", "redact"},
                                   c \in {"", "firefox"},
                                   t \in {"", "youtube", BadPattern}}

SeqsUpTo(S, n) == UNION {[1..k -> S] : k \in 0..n}

InitFlush ==
    /\ clock \in {HalfSec, Sec, Sec + HalfSec}
    /\ running = TRUE
    /\ loop = "run"
    /\ wm_class \in Apps \cup Sentinels \cup {""}
    /\ title \in Titles
    /\ current_start = 0
    /\ last_poll_time = 0
    /\ is_idle = (wm_class = IDLE)
    /\ filter_rules \in SeqsUpTo(RuleUniverse, MaxRules)
    /\ poll_interval = DEFAULT_POLL_INTERVAL
    /\ idle_threshold = DEFAULT_IDLE_THRESHOLD
    /\ last_settings_refresh = 0
    /\ is_paused = FALSE
    /\ pause_until = 0
    /\ tracking_state = NoState
    /\ events = <<>>
    /\ db_rules = filter_rules
    /\ db_settings = DefaultSettings
    /\ n_ticks = 0
    /\ n_stops = 0
    /\ categories = DEFAULT_CATEGORIES
    /\ api_query = NoQuery
    /\ api_result = NoResult
    /\ InitSide
    /\ last = [op |-> "init", jump |-> FALSE, exc |-> "none", inserted |-> 0]

\* one call _flush_current_event() at the time clock
FlushOnce ==
    /\ last.op = "init"
    /\ \E dbfail \in 0..1 :
       \E f \in {FlushCurrentEvent(WatcherFields, clock, filter_rules, dbfail)} :
           /\ current_start' = f.start
           /\ events' = f.events
           /\ last' = [op |-> "flush", jump |-> FALSE, exc |-> f.exc,
                       inserted |-> Len(f.events) - Len(events),
                       duration |-> clock - current_start]
    /\ UNCHANGED <<clock, running, loop, wm_class, title, last_poll_time, is_idle,
                   filter_rules, poll_interval, idle_threshold,
                   last_settings_refresh, is_paused, pause_until, tracking_state,
                   db_rules, db_settings, n_ticks, n_stops>>
    /\ UNCHANGED api_vars

SpecFlush == InitFlush /\ [][FlushOnce]_vars

---------------------------------------------------------------------------
\* The API process between two watcher steps: everything of the watcher
\* that a query does not read
WatcherAtRest ==
    /\ running = TRUE
    /\ loop = "run"
    /\ wm_class = ""
    /\ title = ""
    /\ current_start = 0
    /\ last_poll_time = 0
    /\ is_idle = FALSE
    /\ filter_rules = <<>>
    /\ poll_interval = DEFAULT_POLL_INTERVAL
    /\ idle_threshold = DEFAULT_IDLE_THRESHOLD
    /\ last_settings_refresh = 0
    /\ is_paused = FALSE
    /\ pause_until = 0
    /\ db_rules = <<>>
    /\ db_settings = DefaultSettings
    /\ n_ticks = 0
    /\ n_stops = 0

---------------------------------------------------------------------------
\* _get_matched_category on its own: the category list and the row are drawn

MaxCats == 2

\* names take no part in matching
CatUniverse ==
    { Cat(IF tp = "" THEN "Browser" ELSE "Media", wmp, tp, cs) :
          wmp \in {"", "firefox", "code", BadPattern},
          tp \in {"", "youtube", "YouTube", BadPattern},
          cs \in BOOLEAN }

InitCat ==
    /\ WatcherAtRest
    /\ clock = 0
    /\ tracking_state = NoState
    /\ events = <<>>
    /\ categories \in SeqsUpTo(CatUniverse, MaxCats)
    /\ api_query \in {[wm_class |-> c, title |-> t, now |-> 0] :
                          c \in Apps, t \in Titles}
    /\ api_result = NoResult
    /\ InitSide
    /\ last = [op |-> "init", jump |-> FALSE, exc |-> "none", inserted |-> 0]

MatchCategory ==
    /\ last.op = "init"
    /\ api_result' = GetMatchedCategory(api_query.wm_class, api_query.title,
                                        categories)
    /\ last' = [op |-> "match", jump |-> FALSE, exc |-> "none", inserted |-> 0]
    /\ UNCHANGED <<clock, db_rules, db_settings, categories, api_query>>
    /\ UNCHANGED watcher_vars
    /\ UNCHANGED side_vars
    /\ UNCHANGED <<is_paused, pause_until>>

SpecCat == InitCat /\ [][MatchCategory]_vars

---------------------------------------------------------------------------
\* The summary of a day whose events, published state and categories are drawn

MaxEvents == 3

StoredEvent(c, t, from, to) ==
    [timestamp |-> from, end_timestamp |-> to, wm_class |-> c, title |-> t,
     duration_secs |-> to - from, is_idle |-> (c = IDLE)]

EventUniverse ==
    { StoredEvent("firefox", "YouTube", 0, 10),
      StoredEvent("firefox", "YouTube", 10, 40),
      StoredEvent("Code", "file.py", 40, 60),
      StoredEvent(IDLE, "Idle", 60, 80) }

LastStored == 8 * Sec

PublishedStates ==
    { NoState, PausedState, IdleState(LastStored),
      ActiveState("firefox", "YouTube", LastStored),
      ActiveState("Code", "file.py", LastStored),
      ActiveState("firefox", "file.py", LastStored),
      ActiveState("", "YouTube", LastStored) }

CategoryLists ==
    { DEFAULT_CATEGORIES,
      <<Cat("Broken", BadPattern, "", FALSE), Cat("Media", "", "YouTube", FALSE)>> }

InitSummary ==
    /\ WatcherAtRest
    /\ events \in SeqsUpTo(EventUniverse, MaxEvents)
    /\ tracking_state \in PublishedStates
    /\ categories \in CategoryLists
    /\ clock \in {LastStored + Sec + HalfSec, LastStored + 4 * Sec + HalfSec}
    /\ api_query = [wm_class |-> "", title |-> "", now |-> clock]
    /\ api_result = NoResult
    /\ InitSide
    /\ last = [op |-> "init", jump |-> FALSE, exc |-> "none", inserted |-> 0]

SpecSummary == InitSummary /\ [][Summary]_vars

\* db.get_timeline_range, lines 326-355: ORDER BY timestamp; the order of
\* rows with the same timestamp is not fixed
GetTimeline(evs) ==
    IF \A i \in DOMAIN evs : i = 1 \/ evs[i - 1].timestamp < evs[i].timestamp
    THEN {evs}
    ELSE LET Orders == {p \in [DOMAIN evs -> DOMAIN evs] :
                           \A i, j \in DOMAIN evs : i # j => p[i] # p[j]}
         IN  {rows \in {[i \in DOMAIN evs |-> evs[p[i]]] : p \in Orders} :
                 \A i, j \in DOMAIN rows :
                    i < j => rows[i].timestamp <= rows[j].timestamp}

\* api.py lines 225-236; a state without "timestamp" raises KeyError inside
\* the try, which leaves the rows as they were read
TimelineBlend(rows, curr, now) ==
    IF IsNone(curr) THEN rows
    ELSE IF "timestamp" \notin DOMAIN curr THEN rows
    ELSE Append(rows, [timestamp |-> curr.timestamp, end_timestamp |-> now,
                       wm_class |-> curr.wm_class, title |-> curr.title,
                       duration_secs |-> now - curr.timestamp,
                       is_idle |-> curr.is_idle])

\* lines 238-240: every row gets the colour of its category (here: its
\* name); an exception of _get_matched_category leaves the handler
Colour(rows, cats) ==
    LET m == [i \in DOMAIN rows |->
                 GetMatchedCategory(rows[i].wm_class, rows[i].title, cats)]
    IN  IF \E i \in DOMAIN rows : m[i].out = "raise"
        THEN [out |-> "raise", rows |-> <<>>]
        ELSE [out |-> "rows",
              rows |-> [i \in DOMAIN rows |->
                           [block |-> rows[i],
                            color |-> CategoryName(cats, m[i])]]]

\* GET /api/timeline for today, served at the time now
TimelineCall(now) ==
    /\ \E rows \in GetTimeline(events) :
           api_result' = Colour(TimelineBlend(rows, tracking_state, now), categories)
    /\ api_query' = [api_query EXCEPT !.now = now]
    /\ last' = [op |-> "timeline", jump |-> FALSE, exc |-> "none", inserted |-> 0]
    /\ UNCHANGED <<clock, db_rules, db_settings, categories>>
    /\ UNCHANGED watcher_vars
    /\ UNCHANGED side_vars
    /\ UNCHANGED <<is_paused, pause_until>>

Timeline ==
    /\ last.op = "init"
    /\ TimelineCall(api_query.now)

SpecTimeline == InitSummary /\ [][Timeline]_vars

\* The watcher runs with a redact rule for one application while the
\* dashboard asks for the summary and the timeline of today

MaxRedactTicks == 3

RedactRules == <<Rule("redact", "firefox", "")>>

InitRedact == Started(RedactRules)

RedactDesktop ==
    [obs |-> FALSE,
     wins |-> {Win("firefox", "YouTube"), Win("firefox", "file.py"),
               Win("Code", "file.py")},
     lats |-> {0},
     tmax |-> MaxRedactTicks * DEFAULT_POLL_INTERVAL * Sec]

RedactTick ==
    /\ running /\ loop = "run"
    /\ n_ticks < MaxRedactTicks
    /\ n_ticks' = n_ticks + 1
    /\ Iteration(poll_interval * Sec, IdleMs(0), 0, RedactDesktop)
    /\ UNCHANGED <<running, n_stops, db_rules, db_settings>>
    /\ UNCHANGED api_vars

\* a request of the dashboard, HalfSec after the tick
RedactSummary ==
    /\ last.op = "tick"
    /\ SummaryCall(clock + HalfSec)

RedactTimeline ==
    /\ last.op = "tick"
    /\ TimelineCall(clock + HalfSec)

NextRedact == RedactTick \/ RedactSummary \/ RedactTimeline

SpecRedact == InitRedact /\ [][NextRedact]_vars

\* The pause flag: POST /api/pause and /api/resume and GET /api/pause_status
\* run in the thread of the API server (cli.py line 64), db.get_paused is
\* also called by Watcher._poll in the main thread (watcher.py line 126).
\* get_paused is not atomic: it tests _is_paused and _pause_until, calls
\* datetime.now(), and then compares with _pause_until and stores; the API
\* thread can run between the test and the comparison

MaxPauseSteps == 6

Minute == 60 * Sec
HalfMinute == 30 * Sec

\* duration_mins of the PauseRequest; 0 stands for None
PauseDurations == {0, 1}

PauseIdle ==
    UNCHANGED <<running, loop, wm_class, title, current_start, last_poll_time,
                is_idle, filter_rules, poll_interval, idle_threshold,
                last_settings_refresh, tracking_state, events, db_rules,
                db_settings, n_ticks, n_stops, categories, api_query, api_result,
                init_calls, android_events, pending, windows>>

InitPause ==
    /\ WatcherAtRest
    /\ events = <<>>
    /\ tracking_state = NoState
    /\ categories = DEFAULT_CATEGORIES
    /\ clock = HalfMinute
    /\ api_query = [wm_class |-> "", title |-> "", now |-> 0]
    /\ api_result = NoResult
    /\ InitSide
    /\ last = [op |-> "init", jump |-> FALSE, exc |-> "none", inserted |-> 0,
               set |-> "none", expiry |-> 0, value |-> FALSE, now |-> 0]

\* time passes
PauseClock ==
    /\ clock + HalfMinute <= MaxPauseSteps * HalfMinute
    /\ clock' = clock + HalfMinute
    /\ UNCHANGED <<is_paused, pause_until, reader, last>>
    /\ PauseIdle

\* api.pause_tracking, lines 460-467
PauseFor ==
    /\ \E d \in PauseDurations :
           \E until \in {IF d # 0 THEN clock + d * Minute ELSE 0} :
              /\ is_paused' = TRUE
              /\ pause_until' = until
              /\ last' = [last EXCEPT !.op = "pause",
                                      !.set = IF d # 0 THEN "timed" ELSE "untimed",
                                      !.expiry = until]
    /\ UNCHANGED <<clock, reader>>
    /\ PauseIdle

\* api.resume_tracking, lines 469-473
Resume ==
    /\ is_paused' = FALSE
    /\ pause_until' = 0
    /\ last' = [last EXCEPT !.op = "resume", !.set = "resume", !.expiry = 0]
    /\ UNCHANGED <<clock, reader>>
    /\ PauseIdle

ReadPaused(value) ==
    last' = [last EXCEPT !.op = "read", !.value = value, !.now = clock]

\* api.get_pause_status, line 458: get_paused run in the API thread, where
\* no pause or resume request runs at the same time
PauseStatus ==
    /\ \E r \in {GetPaused(is_paused, pause_until, clock)} :
           /\ is_paused' = r.is_paused
           /\ pause_until' = r.pause_until
           /\ ReadPaused(r.is_paused)
    /\ UNCHANGED <<clock, reader>>
    /\ PauseIdle

\* db.get_paused called by the watcher, line 131: the test of the flag and
\* of the stored expiry
GetPausedTest ==
    /\ reader = NoReader
    /\ IF is_paused /\ pause_until > 0
       THEN /\ reader' = [pc |-> "now"]
            /\ UNCHANGED last
       ELSE /\ ReadPaused(is_paused)
            /\ UNCHANGED reader
    /\ UNCHANGED <<clock, is_paused, pause_until>>
    /\ PauseIdle

\* lines 132-135: the comparison with the expiry stored now, the two
\* stores and the return
GetPausedCompare ==
    /\ reader = [pc |-> "now"]
    /\ reader' = NoReader
    /\ IF clock > pause_until
       THEN /\ is_paused' = FALSE
            /\ pause_until' = 0
            /\ ReadPaused(FALSE)
       ELSE /\ ReadPaused(is_paused)
            /\ UNCHANGED <<is_paused, pause_until>>
    /\ UNCHANGED clock
    /\ PauseIdle

NextPause ==
    \/ PauseClock
    \/ PauseFor
    \/ Resume
    \/ PauseStatus
    \/ GetPausedTest
    \/ GetPausedCompare

SpecPause == InitPause /\ [][NextPause]_vars

\* GET /api/metrics, api.py lines 318-355

MaxBlocks == 52

\* one turn of the for loop, lines 332-344; last_app is <<>> for None
MetricsStep_AcrossIdle(st, row) ==
    IF row.is_idle THEN st
    ELSE [switches |-> IF <<row.wm_class>> # st.last_app /\ st.last_app # <<>>
                       THEN st.switches + 1 ELSE st.switches,
          last_app |-> <<row.wm_class>>,
          active_secs |-> st.active_secs + row.duration_secs]

MetricsStep(st, row) ==
    IF row.is_idle THEN [st EXCEPT !.last_app = <<>>]
    ELSE [switches |-> IF <<row.wm_class>> # st.last_app /\ st.last_app # <<>>
                       THEN st.switches + 1 ELSE st.switches,
          last_app |-> <<row.wm_class>>,
          active_secs |-> st.active_secs + row.duration_secs]

RECURSIVE MetricsLoop(_, _, _)
MetricsLoop(rows, i, st) ==
    IF i > Len(rows) THEN st
    ELSE LET nxt == MetricsStep(st, rows[i])
         IN  IF nxt.switches >= 0 THEN MetricsLoop(rows, i + 1, nxt) ELSE nxt

\* line 348
FocusScore(switches) ==
    IF 100 - switches * 2 > 0 THEN 100 - switches * 2 ELSE 0

Metrics(rows) ==
    LET st == MetricsLoop(rows, 1, [switches |-> 0, last_app |-> <<>>, active_secs |-> 0])
    IN  [out |-> "metrics", context_switches |-> st.switches,
         focus_score |-> FocusScore(st.switches), active_secs |-> st.active_secs]

\* timelines of one day: n blocks of one second each that repeat a pattern
\* of up to three kinds of block
BlockKinds == {<<"firefox", "YouTube">>, <<"firefox", "file.py">>,
               <<"Code", "file.py">>, <<IDLE, "Idle">>}

BlockAt(kind, i) == StoredEvent(kind[1], kind[2], (i - 1) * Sec, i * Sec)

Repeated_Pattern(pat, n) ==
    [i \in 1..n |-> BlockAt(pat[((i - 1) % Len(pat)) + 1], i)]

InitMetrics ==
    /\ WatcherAtRest
    /\ \E pat \in SeqsUpTo(BlockKinds, 3) \ {<<>>}, n \in 0..MaxBlocks :
           events = Repeated_Pattern(pat, n)
    /\ tracking_state = NoState
    /\ categories = DEFAULT_CATEGORIES
    /\ clock = (MaxBlocks + 2) * Sec
    /\ api_query = [wm_class |-> "", title |-> "", now |-> clock]
    /\ api_result = NoResult
    /\ InitSide
    /\ last = [op |-> "init", jump |-> FALSE, exc |-> "none", inserted |-> 0]

GetMetrics ==
    /\ last.op \in {"init", "insert"}
    /\ \E rows \in GetTimeline(events) : api_result' = Metrics(rows)
    /\ last' = [op |-> "metrics", jump |-> FALSE, exc |-> "none",
                inserted |-> last.inserted]
    /\ UNCHANGED <<clock, db_rules, db_settings, categories, api_query, events>>
    /\ UNCHANGED <<running, loop, wm_class, title, current_start, last_poll_time,
                   is_idle, filter_rules, poll_interval, idle_threshold,
                   last_settings_refresh, tracking_state, n_ticks, n_stops>>
    /\ UNCHANGED side_vars
    /\ UNCHANGED <<is_paused, pause_until>>

\* db.insert_event: one more block is stored after the last one
InsertBlock ==
    /\ last.op = "metrics"
    /\ last.inserted = 0
    /\ \E kind \in BlockKinds :
           events' = Append(events, BlockAt(kind, Len(events) + 1))
    /\ last' = [op |-> "insert", jump |-> FALSE, exc |-> "none", inserted |-> 1]
    /\ UNCHANGED <<clock, db_rules, db_settings, categories, api_query, api_result>>
    /\ UNCHANGED <<running, loop, wm_class, title, current_start, last_poll_time,
                   is_idle, filter_rules, poll_interval, idle_threshold,
                   last_settings_refresh, tracking_state, n_ticks, n_stops>>
    /\ UNCHANGED side_vars
    /\ UNCHANGED <<is_paused, pause_until>>

NextMetrics == GetMetrics \/ InsertBlock

SpecMetrics == InitMetrics /\ [][NextMetrics]_vars

\* Handlers that read only the stored events, called again and again while
\* the watcher publishes new states.  last.published is the state that was
\* published when the handler ran, last.before the one of the call before
\* it (of the same handler)

TotalsOps == {"history", "range_history", "export_json", "export_csv"}

\* the values of the published state: null, Paused, Idle and Active
TotalsStates ==
    { NoState, PausedState, IdleState(LastStored),
      ActiveState("firefox", "YouTube", LastStored) }

InitTotals ==
    /\ WatcherAtRest
    /\ events \in SeqsUpTo(EventUniverse, MaxEvents)
    /\ tracking_state \in TotalsStates
    /\ categories = DEFAULT_CATEGORIES
    /\ clock = LastStored + Sec + HalfSec
    /\ api_query = [wm_class |-> "", title |-> "", now |-> clock]
    /\ api_result = NoResult
    /\ InitSide
    /\ last = [op |-> "init", jump |-> FALSE, exc |-> "none", inserted |-> 0]

Served(op, result) ==
    /\ api_result' = result
    /\ last' = [op |-> op, jump |-> FALSE, exc |-> "none", inserted |-> 0,
                published |-> tracking_state,
                before |-> IF last.op = op THEN <<last.published>> ELSE <<>>]
    /\ UNCHANGED <<clock, db_rules, db_settings, categories, api_query>>
    /\ UNCHANGED watcher_vars
    /\ UNCHANGED side_vars
    /\ UNCHANGED <<is_paused, pause_until>>

\* GET /api/history: db.get_daily_totals
History == Served("history", [out |-> "history", rows |-> DailyTotals(events)])

\* GET /api/range/history: db.get_daily_totals_range, the same query
\* between two dates
RangeHistory ==
    Served("range_history", [out |-> "history", rows |-> DailyTotals(events)])

\* one line of the CSV export: the six columns of the DictWriter
CsvLine(r) ==
    <<r.timestamp, r.end_timestamp, r.wm_class, r.title, r.duration_secs,
      IF r.is_idle THEN 1 ELSE 0>>

\* GET /api/export: the rows of db.get_timeline_range, as JSON or as CSV
ExportData ==
    \E rows \in GetTimeline(events) :
        \/ Served("export_json", [out |-> "events", rows |-> rows])
        \/ Served("export_csv",
                  [out |-> "csv", rows |-> [i \in DOMAIN rows |-> CsvLine(rows[i])]])

\* db.set_current_state, called by the watcher between two requests
SetCurrentState ==
    /\ last.op \in TotalsOps
    /\ tracking_state' \in TotalsStates \ {tracking_state}
    /\ UNCHANGED <<clock, running, loop, wm_class, title, current_start,
                   last_poll_time, is_idle, filter_rules, poll_interval,
                   idle_threshold, last_settings_refresh, is_paused, pause_until,
                   events, db_rules, db_settings, n_ticks, n_stops, last>>
    /\ UNCHANGED api_vars

NextTotals == History \/ RangeHistory \/ ExportData \/ SetCurrentState

SpecTotals == InitTotals /\ [][NextTotals]_vars

\* The queries of the dashboard over a day in which tracking was paused: the
\* event of a Paused segment is stored as _flush_current_event stores it
\* (watcher.py lines 315-323: is_idle is True for "__idle__" only)

PausedDay ==
    { StoredEvent("firefox", "YouTube", 0, 10),
      StoredEvent(PAUSED, "Paused", 10, 40),
      StoredEvent("Code", "file.py", 40, 60),
      StoredEvent(IDLE, "Idle", 60, 80) }

\* the events of the day in the order of their start
InitPausedDay ==
    /\ WatcherAtRest
    /\ events \in {evs \in SeqsUpTo(PausedDay, MaxEvents) :
                       \A i \in DOMAIN evs :
                           i = 1 \/ evs[i - 1].timestamp < evs[i].timestamp}
    /\ tracking_state \in {NoState, ActiveState("Code", "file.py", LastStored)}
    /\ categories = DEFAULT_CATEGORIES
    /\ clock \in {LastStored + Sec + HalfSec, LastStored + 4 * Sec + HalfSec}
    /\ api_query = [wm_class |-> "", title |-> "", now |-> clock]
    /\ api_result = NoResult
    /\ InitSide
    /\ last = [op |-> "init", jump |-> FALSE, exc |-> "none", inserted |-> 0]

NextPausedDay == Summary \/ History \/ GetMetrics

SpecPausedDay == InitPausedDay /\ [][NextPausedDay]_vars

---------------------------------------------------------------------------
\* prune_events on its own.  Times count from the local midnight of day 0;
\* the watcher stores the local wall clock (datetime.now().isoformat(),
\* watcher.py line 316) and SQLite's DATE('now') is the date in UTC
Hour == 3600 * Sec
Day == 24 * Hour

MaxDays == 2

\* the date part of an ISO timestamp
DateOf(t) == t \div Day

\* DATE('now', '-n days'), db.py line 249: now is the local time, off the
\* offset of the local time from UTC
CutoffDate(now, off, n) == DateOf(now - off) - n

\* timestamp < DATE(...), the comparison of two texts: a timestamp
\* 'YYYY-MM-DDTHH:MM:SS' sorts before the date d exactly when its date part
\* does (with the same date part it is the longer text)
TextBefore(ts, d) == DateOf(ts) < d

\* db.prune_events, lines 246-255
PruneEvents(evs, now, off, n) ==
    LET Kept(e) == ~TextBefore(e.timestamp, CutoffDate(now, off, n))
        kept == SelectSeq(evs, Kept)
    IN  [events |-> kept, deleted_count |-> Len(evs) - Len(kept)]

UtcOffsets == {0 - 8 * Hour, 0, 7 * Hour}

OldEvents ==
    { StoredEvent("Code", "file.py", from, from + 60 * Sec) :
        from \in {Day + Hour, Day + 20 * Hour, 2 * Day + Hour,
                  2 * Day + 20 * Hour, 3 * Day + 2 * Hour} }

InitPrune ==
    /\ WatcherAtRest
    /\ events \in SeqsUpTo(OldEvents, MaxEvents)
    /\ \A i, j \in DOMAIN events :
           i < j => events[i].end_timestamp <= events[j].timestamp
    /\ tracking_state = NoState
    /\ categories = DEFAULT_CATEGORIES
    /\ clock \in {3 * Day + 4 * Hour, 3 * Day + 22 * Hour}
    /\ api_query = NoQuery
    /\ api_result = NoResult
    /\ InitSide
    /\ last = [op |-> "init", jump |-> FALSE, exc |-> "none", inserted |-> 0]

\* one round of prune_loop, api.py lines 117-130
Prune ==
    /\ last.op = "init"
    /\ \E n \in 1..MaxDays, off \in UtcOffsets :
       \E r \in {PruneEvents(events, clock, off, n)} :
           /\ events' = r.events
           /\ api_result' = [out |-> "pruned", deleted |-> r.deleted_count]
           /\ last' = [op |-> "prune", jump |-> FALSE, exc |-> "none",
                       inserted |-> 0, days |-> n, off |-> off]
    /\ UNCHANGED <<clock, running, loop, wm_class, title, current_start,
                   last_poll_time, is_idle, filter_rules, poll_interval,
                   idle_threshold, last_settings_refresh, tracking_state,
                   n_ticks, n_stops>>
    /\ UNCHANGED <<db_rules, db_settings, categories, api_query>>
    /\ UNCHANGED side_vars
    /\ UNCHANGED <<is_paused, pause_until>>

SpecPrune == InitPrune /\ [][Prune]_vars

---------------------------------------------------------------------------
\* POST /api/sync/android: one day of the payload at a time.  The table is
\* what the one connection of the process (db.py get_db) sees, the statements
\* of a call that raised before its commit included
MaxPayload == 2

AndroidRow(id, dev, ts) == [id |-> id, device_id |-> dev, timestamp |-> ts]

AndroidUniverse ==
    { AndroidRow(id, dev, ts) : id \in {"a", "b"}, dev \in {"phone", "tablet"},
                               ts \in {8 * Hour, Day + 8 * Hour} }

\* the lists a client can send for the day: events of that day (api.py
\* lines 61-63), no id twice
Payloads(day) ==
    { p \in SeqsUpTo(AndroidUniverse, MaxPayload) :
        /\ \A i \in DOMAIN p : DateOf(p[i].timestamp) = day
        /\ \A i, j \in DOMAIN p : i # j => p[i].id # p[j].id }

\* lines 551-561: the DELETE of the day, for the device of the first event
\* when it has one
DeleteDay(table, day, evs) ==
    LET device_id == IF evs # <<>> THEN evs[1].device_id ELSE ""
    IN  { r \in table :
            ~ /\ DateOf(r.timestamp) = day
              /\ device_id # "" => r.device_id = device_id }

\* lines 562-577: the INSERTs in the order of the list; id is the primary key
RECURSIVE InsertAll(_, _, _)
InsertAll(table, evs, k) ==
    IF k > Len(evs) THEN [out |-> "ok", table |-> table]
    ELSE IF \E r \in table : r.id = evs[k].id
         THEN [out |-> "IntegrityError", table |-> table]
         ELSE InsertAll(table \cup {evs[k]}, evs, k + 1)

\* db.sync_android_day, lines 540-579
SyncAndroidDay(table, day, evs) == InsertAll(DeleteDay(table, day, evs), evs, 1)

SyncAndroid ==
    /\ last.op \in {"init", "sync"}
    /\ \E day \in {0, 1} :
       \E evs \in Payloads(day) :
       \E r \in {SyncAndroidDay(android_events, day, evs)} :
           /\ android_events' = r.table
           /\ api_result' = [out |-> r.out, synced_events |-> Len(evs)]
           /\ last' = [op |-> "sync", jump |-> FALSE, exc |-> "none",
                       inserted |-> 0, day |-> day, events |-> evs,
                       out |-> r.out]
    /\ UNCHANGED <<clock, running, loop, wm_class, title, current_start,
                   last_poll_time, is_idle, filter_rules, poll_interval,
                   idle_threshold, last_settings_refresh, tracking_state,
                   events, n_ticks, n_stops>>
    /\ UNCHANGED <<db_rules, db_settings, categories, api_query, reader,
                   init_calls, pending, windows>>
    /\ UNCHANGED <<is_paused, pause_until>>

SpecAndroid == Init /\ [][SyncAndroid]_vars

---------------------------------------------------------------------------
\* one event ends no later than the other starts
Disjoint(a, b) ==
    \/ a.end_timestamp <= b.timestamp
    \/ b.end_timestamp <= a.timestamp

\* C1: any two distinct events persisted by the watcher do not overlap in
\* time: one ends no later than the other starts.
C1_NoOverlap ==
    \A i, j \in DOMAIN events : i # j => Disjoint(events[i], events[j])

\* shutdown after a detected clock jump, with events from before and after it
C1_Witness ==
    /\ loop = "done"
    /\ Len(events) >= 2
    /\ \E i \in 1..(Len(events) - 1) :
           events[i + 1].timestamp - events[i].end_timestamp
               > JumpFactor * DEFAULT_POLL_INTERVAL * Sec

---------------------------------------------------------------------------
\* a rule matches a segment: each pattern is ignored when empty
RuleMatches(rule, wm, t) ==
    /\ rule.wm_class_pattern = "" \/ ReSearch(rule.wm_class_pattern, wm, TRUE) = "yes"
    /\ rule.title_pattern = "" \/ ReSearch(rule.title_pattern, t, TRUE) = "yes"

FirstMatch(rules, wm, t) ==
    IF \E i \in DOMAIN rules : RuleMatches(rules[i], wm, t)
    THEN CHOOSE i \in DOMAIN rules :
            /\ RuleMatches(rules[i], wm, t)
            /\ \A j \in 1..(i - 1) : ~RuleMatches(rules[j], wm, t)
    ELSE 0

WellFormed(rules) ==
    \A i \in DOMAIN rules : /\ rules[i].wm_class_pattern # BadPattern
                             /\ rules[i].title_pattern # BadPattern

FilteredSegmentFlushed ==
    /\ last.op = "flush"
    /\ last.duration >= Sec
    /\ wm_class \notin Sentinels \cup {""}
    /\ last.exc # "db"

\* C2: the flush of a non-sentinel segment of at least one second is decided
\* by the first rule, in stored order, that matches it: ignore persists
\* nothing, redact persists the placeholder title, no match persists the
\* segment as it is; later rules have no effect.
C2_FirstMatchDecides ==
    (FilteredSegmentFlushed /\ WellFormed(filter_rules)) =>
        LET k == FirstMatch(filter_rules, wm_class, title)
        IN  IF k = 0
            THEN events = <<[timestamp |-> 0, end_timestamp |-> clock,
                             wm_class |-> wm_class, title |-> title,
                             duration_secs |-> clock, is_idle |-> FALSE]>>
            ELSE IF filter_rules[k].rule_type = "ignore"
            THEN events = <<>>
            ELSE events = <<[timestamp |-> 0, end_timestamp |-> clock,
                             wm_class |-> wm_class, title |-> REDACTED,
                             duration_secs |-> clock, is_idle |-> FALSE]>>

---------------------------------------------------------------------------
\* the interval of e meets the open interval (lo, hi)
InGap(e, lo, hi) == e.end_timestamp > lo /\ e.timestamp < hi

\* after a jump tick no persisted event reaches into the gap between the
\* last successful tick and now
C3_GapExcluded ==
    (last.op = "tick" /\ last.jump) =>
        \A i \in DOMAIN events : ~InGap(events[i], last.last_good, last.now)

\* after a jump tick the open segment starts at now or later
C3_StartsAtNow ==
    (last.op = "tick" /\ last.jump) => current_start >= last.now

\* C3: after a tick that found more than 4 poll intervals since the last
\* successful tick, the open segment starts at now or later and no persisted
\* event reaches into the gap between that last successful tick and now.
C3_JumpSplit == C3_GapExcluded /\ C3_StartsAtNow

---------------------------------------------------------------------------
\* C4: every persisted event lasts at least one second, and a flush that
\* computed a duration below one second has inserted nothing.
C4_MinDuration ==
    /\ \A i \in DOMAIN events :
           events[i].end_timestamp - events[i].timestamp >= Sec
    /\ (last.op = "stop" /\ last.duration < Sec) => last.inserted = 0

\* a shutdown half a second after the open segment began: nothing persisted
\* by it, while an earlier segment was
C4_Witness ==
    /\ last.op = "stop"
    /\ last.duration = HalfSec
    /\ wm_class \in Apps
    /\ last.exc = "none"
    /\ Len(events) >= 1

---------------------------------------------------------------------------
\* C5: once the first stop() has flushed the open segment, a second stop()
\* with no tick in between persists no further event.
C5_SecondStopPersistsNothing ==
    [][(loop = "done" /\ n_stops = 1 /\ last.inserted = 1) => events' = events]_vars

---------------------------------------------------------------------------
\* a non-empty pattern of a category matches s, with the category's case
\* sensitivity
Matches(cat, pattern, s) ==
    pattern # "" /\ ReSearch(pattern, s, ~cat.is_case_sensitive) = "yes"

TitleHits(cats, t) ==
    {i \in DOMAIN cats : Matches(cats[i], cats[i].title_pattern, t)}

AppHits(cats, wm) ==
    {i \in DOMAIN cats : Matches(cats[i], cats[i].wm_class_pattern, wm)}

Least(S) == CHOOSE i \in S : \A j \in S : i <= j

TwoPassChoice(cats, wm, t) ==
    IF TitleHits(cats, t) # {} THEN [out |-> "cat", idx |-> Least(TitleHits(cats, t))]
    ELSE IF AppHits(cats, wm) # {} THEN [out |-> "cat", idx |-> Least(AppHits(cats, wm))]
    ELSE Uncategorized

\* C6: whenever category matching returns, it returns the first category
\* (in list order) whose non-empty title pattern matches the title; only if
\* no title pattern matches, the first category whose non-empty app pattern
\* matches the app identity; otherwise Uncategorized.
C6_TwoPasses ==
    (last.op = "match" /\ api_result.out # "raise") =>
        api_result = TwoPassChoice(categories, api_query.wm_class, api_query.title)

\* the first category matches by app only, the second by title: the second
\* is returned
C6_Witness ==
    /\ last.op = "match"
    /\ Len(categories) = 2
    /\ 1 \in AppHits(categories, api_query.wm_class)
    /\ TitleHits(categories, api_query.title) = {2}
    /\ api_result = [out |-> "cat", idx |-> 2]

---------------------------------------------------------------------------
\* an open segment that is neither idle nor paused, with an app identity
OpenEligible(curr) ==
    /\ ~IsNone(curr)
    /\ ~curr.is_idle
    /\ curr.wm_class \notin Sentinels \cup {""}

Persisted(c, t) ==
    LET SameKey(e) == InSummary(e) /\ e.wm_class = c /\ e.title = t
    IN  SelectSeq(events, SameKey)

SummaryKeys ==
    {<<events[i].wm_class, events[i].title>> :
         i \in {j \in DOMAIN events : InSummary(events[j])}}
    \cup {<<tracking_state.wm_class, tracking_state.title>>}

\* C7: in a summary of today with an open segment that is neither idle nor
\* paused, the rows are the persisted groups plus the key of the open
\* segment, each once; the row with that key has the persisted total plus
\* (now - start) and one more event, every other row its persisted total and
\* count; and the rows are in descending order of total.
C7_LiveBlend ==
    (last.op = "summary" /\ OpenEligible(tracking_state) /\ api_result.out = "rows") =>
        LET R == api_result.rows
            duration == api_query.now - tracking_state.timestamp
        IN  /\ Len(R) = Cardinality(SummaryKeys)
            /\ \A k \in SummaryKeys :
                   \E i \in DOMAIN R : <<R[i].wm_class, R[i].title>> = k
            /\ \A i \in DOMAIN R :
                   LET g == Persisted(R[i].wm_class, R[i].title)
                   IN  IF /\ R[i].wm_class = tracking_state.wm_class
                          /\ R[i].title = tracking_state.title
                       THEN /\ R[i].total_secs = SumSecs(g) + duration
                            /\ R[i].event_count = Len(g) + 1
                       ELSE /\ R[i].total_secs = SumSecs(g)
                            /\ R[i].event_count = Len(g)
            /\ Descending(R)

\* the open segment lifts its group from below another group to the top
C7_Witness ==
    /\ last.op = "summary"
    /\ OpenEligible(tracking_state)
    /\ api_result.out = "rows"
    /\ Len(api_result.rows) >= 2
    /\ api_result.rows[1].wm_class = tracking_state.wm_class
    /\ api_result.rows[1].title = tracking_state.title
    /\ Len(Persisted(tracking_state.wm_class, tracking_state.title)) >= 1
    /\ SumSecs(Persisted(tracking_state.wm_class, tracking_state.title))
           < api_result.rows[2].total_secs

---------------------------------------------------------------------------
\* a rule one of whose patterns does not compile
BadRule(rule) ==
    rule.wm_class_pattern = BadPattern \/ rule.title_pattern = BadPattern

\* C8: a flush in which a rule's pattern fails to evaluate ends as the flush
\* over the remaining rules would: no error leaves it, and the segment is
\* discarded or persisted as those rules say.
C8_BadRuleSkipped ==
    (FilteredSegmentFlushed /\ \E i \in DOMAIN filter_rules : BadRule(filter_rules[i])) =>
        LET NotBad(rule) == ~BadRule(rule)
            f == ApplyFilterRules(SelectSeq(filter_rules, NotBad), wm_class, title)
        IN  /\ last.exc # "re"
            /\ f.out = "ignore" => events = <<>>
            /\ f.out = "go" =>
                   events = <<[timestamp |-> 0, end_timestamp |-> clock,
                               wm_class |-> wm_class, title |-> f.title,
                               duration_secs |-> clock, is_idle |-> FALSE]>>

---------------------------------------------------------------------------
\* C9: a summary over categories of which one has a pattern that fails to
\* evaluate still returns its rows, each with the category that matching
\* over the remaining categories gives it.
C9_BadCategorySkipped ==
    last.op = "summary" =>
        /\ api_result.out = "rows"
        /\ \A i \in DOMAIN api_result.rows :
               api_result.rows[i].category_name =
                   CategoryName(categories,
                                TwoPassChoice(categories,
                                              api_result.rows[i].wm_class,
                                              api_result.rows[i].title))

---------------------------------------------------------------------------
\* C10: a tick in which an insert into storage failed leaves the loop
\* running.
C10_StorageFailureSurvived ==
    (last.op = "tick" /\ last.exc = "db") => loop = "run"

---------------------------------------------------------------------------
\* the latest step was a tick whose idle probe raised or whose window
\* sample was absent
ProbeFailed(h) ==
    /\ h.op = "tick"
    /\ h.idle.kind = "raise" \/ h.win.kind = "absent"

\* C11: a tick in which a probe fails persists no event and leaves the
\* open segment's identity, title and start time and the idle flag as they
\* were before the tick.
C11_ProbeFailureNoOp ==
    [][ProbeFailed(last') =>
           /\ events' = events
           /\ wm_class' = wm_class
           /\ title' = title
           /\ current_start' = current_start
           /\ is_idle' = is_idle]_vars

---------------------------------------------------------------------------
\* C12: once stop() has completed, the published current state is null.
C12_StateClearedOnStop ==
    loop = "done" => IsNone(tracking_state)

---------------------------------------------------------------------------
\* the session has run all its ticks, the last one reporting the idle time
SessionOver == n_ticks = ScenarioTicks /\ is_idle

SessionEnd == (ScenarioTicks - 1) * DEFAULT_POLL_INTERVAL * Sec

\* C13: after ticks every 5 s from 0 on one window and a last tick that
\* reports 130000 ms idle, exactly one event is persisted, for that window,
\* from 0 to the last tick and not idle; the open segment is Idle from the
\* last tick; the summary of today has the one group of the window with that
\* duration and no idle group; the daily totals have that duration as active
\* and 0 as idle seconds.
C13_Session ==
    SessionOver =>
        /\ Len(events) = 1
        /\ events[1].wm_class \in {"Editor", "Code"}
        /\ events[1].title = "file.py"
        /\ events[1].timestamp = 0
        /\ events[1].end_timestamp = SessionEnd
        /\ events[1].duration_secs = SessionEnd
        /\ ~events[1].is_idle
        /\ wm_class = IDLE /\ current_start = SessionEnd
        /\ last.op = "summary" =>
               /\ api_result.out = "rows"
               /\ Len(api_result.rows) = 1
               /\ api_result.rows[1].wm_class = events[1].wm_class
               /\ api_result.rows[1].total_secs = SessionEnd
        /\ last.op = "history" =>
               api_result.rows = <<[active_secs |-> SessionEnd, idle_secs |-> 0,
                                    event_count |-> 1]>>

\* the Editor session, with both queries answered
C13_Witness ==
    /\ SessionOver
    /\ clock = SessionEnd
    /\ events[1].wm_class = "Editor"
    /\ last.op = "history"

---------------------------------------------------------------------------
\* C14: a handler that has read the published state while the watcher
\* published new ones holds the fields (idle flag, identity, start, title)
\* of one published state: the one it bound, never a mixture of two.
C14_Snapshot ==
    reader.pc = "done" /\ ~IsNone(reader.curr) =>
        /\ reader.got = Fields(reader.curr)
        /\ reader.curr \in reader.seen

\* the watcher published two further states while the handler read
C14_Witness ==
    /\ reader.pc = "done"
    /\ ~IsNone(reader.curr)
    /\ Cardinality(reader.seen) >= 3
    /\ reader.curr # tracking_state

---------------------------------------------------------------------------
\* the rows of the table that carry the name of the default category d
RowsNamed(d) == {i \in DOMAIN categories : categories[i].name = d.name}

\* C15: once init_db has run on a database that had no categories, and
\* after any further calls, those of the two startups running concurrently
\* included, each default category is in the table exactly once.
C15_SeededOnce ==
    (\A c \in Callers : init_calls[c].pc = "none")
    /\ (\E c \in Callers : init_calls[c].n > 0)
    => \A i \in DOMAIN DEFAULT_CATEGORIES :
           Cardinality(RowsNamed(DEFAULT_CATEGORIES[i])) = 1

---------------------------------------------------------------------------
\* the event e started more than n days before the time now
OlderThan(e, now, n) == e.timestamp < now - n * Day

\* C16: prune_events(n) deletes exactly the events that started more than
\* n days before now, returns how many it deleted and leaves the other
\* events as they were.
C16_PruneExact ==
    [][last'.op = "prune" =>
          LET Younger(e) == ~OlderThan(e, clock, last'.days)
          IN  /\ events' = SelectSeq(events, Younger)
              /\ api_result'.deleted = Len(events) - Len(events')]_vars

---------------------------------------------------------------------------
\* the call that ends in the next state repeats the payload of the call
\* before it, which succeeded
Repeated ==
    /\ last.op = "sync" /\ last'.op = "sync"
    /\ last.out = "ok"
    /\ last'.day = last.day /\ last'.events = last.events

\* C17: applying a payload (day, events) again after it was applied succeeds
\* and leaves the android_events table as it was; no call removes an event
\* of another day.
C17_SyncIdempotent ==
    [][/\ Repeated => last'.out = "ok" /\ android_events' = android_events
       /\ last'.op = "sync" =>
              \A r \in android_events :
                  DateOf(r.timestamp) # last'.day => r \in android_events']_vars

---------------------------------------------------------------------------
\* the tick that ends in the next state found the pause flag set
PausedTick == last'.op = "tick" /\ last'.paused

\* the open segment is the same before and after the step, nothing persisted
SegmentKept ==
    /\ events' = events
    /\ wm_class' = wm_class /\ title' = title
    /\ current_start' = current_start

\* the step persisted nothing or the one event of the open segment
SegmentClosed ==
    \/ events' = events
    \/ /\ Len(events') = Len(events) + 1
       /\ SubSeq(events', 1, Len(events)) = events
       /\ events'[Len(events')].timestamp = current_start
       /\ events'[Len(events')].wm_class = wm_class

\* the step left the open Paused segment that starts at the tick
PausedOpened ==
    /\ wm_class' = PAUSED /\ title' = "Paused"
    /\ current_start' = last'.now

\* neither probe was consulted
NoProbeRead == last'.idle = NoSample /\ last'.win = NoSample

\* the statement of C18 over every paused tick
C18_PauseTick_AllTicks ==
    [][PausedTick =>
          /\ wm_class # PAUSED => SegmentClosed /\ PausedOpened
          /\ wm_class = PAUSED => SegmentKept
          /\ NoProbeRead]_vars

\* C18: on a tick without a clock jump where the pause flag is set: if the
\* open segment is not Paused it is closed and a Paused segment is opened at
\* now, unless the flush raises, which leaves segment and storage as they
\* were; if it is already Paused nothing is persisted and the open segment
\* is unchanged; the idle probe and the window sample are not consulted.
C18_PauseTick ==
    [][PausedTick /\ ~last'.jump =>
          /\ wm_class # PAUSED /\ last'.exc = "none" =>
                 SegmentClosed /\ PausedOpened
          /\ wm_class = PAUSED \/ last'.exc # "none" => SegmentKept
          /\ NoProbeRead]_vars

\* a tick without jump has closed a segment and entered Paused
C18_Witness ==
    /\ last.op = "tick" /\ last.paused /\ ~last.jump
    /\ wm_class = PAUSED /\ current_start = last.now
    /\ last.inserted = 1

---------------------------------------------------------------------------
\* the tick that ends in the next state ran to its end with the pause flag
\* clear and read the idle time ms from the probe
IdleRead(ms) ==
    /\ last'.op = "tick" /\ ~last'.paused /\ last'.exc = "none"
    /\ last'.idle = IdleMs(ms)

\* C19: on a tick where the pause flag is clear, the idle time exceeds the
\* threshold and the open segment is not the Idle segment, the tick closes
\* the current segment and leaves an open Idle segment that starts at now.
C19_IdleEntry ==
    [][\A ms \in IdleSamples :
          IdleRead(ms) /\ ms > idle_threshold' /\ wm_class # IDLE =>
              /\ SegmentClosed
              /\ wm_class' = IDLE /\ current_start' = last'.now]_vars

---------------------------------------------------------------------------
\* the tick that ends in the next state ran to its end with the pause flag
\* clear and read an idle time at or below the threshold
ActiveRead ==
    /\ last'.op = "tick" /\ ~last'.paused /\ last'.exc = "none"
    /\ last'.idle.kind # "none"
    /\ GetIdleTime(last'.idle) <= idle_threshold'

\* the events that the step appended
Appended == SubSeq(events', Len(events) + 1, Len(events'))

\* C20: on a tick where the open segment is Idle and the idle time is at or
\* below the threshold, the idle segment is closed and the window is
\* detected in the same tick: what the tick persists are idle events of the
\* time up to now, and after it the open segment is the Active segment of
\* the sampled window, starting at now, not the idle sentinel.
C20_IdleExit ==
    [][ActiveRead /\ wm_class = IDLE =>
          /\ last'.win # NoSample
          /\ Len(events') >= Len(events)
          /\ SubSeq(events', 1, Len(events)) = events
          /\ \A i \in DOMAIN Appended :
                 /\ Appended[i].wm_class = IDLE /\ Appended[i].is_idle
                 /\ Appended[i].timestamp >= current_start
                 /\ Appended[i].end_timestamp <= clock'
          /\ ~is_idle'
          /\ last'.win.kind = "window" =>
                 /\ wm_class' = last'.win.wm_class /\ title' = last'.win.title
                 /\ wm_class' # IDLE
                 /\ current_start' = clock'
                 /\ tracking_state' = ActiveState(wm_class', title', clock')]_vars

\* a tick has persisted the idle event up to now and opened the window's
\* segment
C20_Witness ==
    /\ last.op = "tick" /\ ~last.paused /\ last.exc = "none" /\ ~last.jump
    /\ last.idle = IdleMs(DEFAULT_IDLE_THRESHOLD)
    /\ last.win.kind = "window"
    /\ last.inserted = 1
    /\ events[Len(events)].wm_class = IDLE
    /\ events[Len(events)].end_timestamp = last.now
    /\ wm_class = last.win.wm_class /\ current_start = clock

---------------------------------------------------------------------------
\* the machine is in Active: the open segment is no sentinel and the idle
\* flag is down
InActive == wm_class \notin Sentinels /\ ~is_idle

\* the window that the tick sampled is the one of the open segment
SamePair == last'.win.wm_class = wm_class /\ last'.win.title = title

\* C21: in Active, a tick without clock jump, with the pause flag clear, an
\* idle time not above the threshold and a sampled window: when the sampled
\* pair is the open segment's, nothing is persisted and identity, title and
\* start stay; when it differs, the open segment is closed and a new Active
\* segment with the sampled pair starts at now.
C21_WindowCheck ==
    [][ActiveRead /\ ~last'.jump /\ last'.win.kind = "window" /\ InActive =>
          /\ SamePair => SegmentKept
          /\ ~SamePair =>
                 /\ SegmentClosed
                 /\ wm_class' = last'.win.wm_class /\ title' = last'.win.title
                 /\ current_start' = clock']_vars

\* a tick has closed the segment of one window and opened the other's
C21_Witness ==
    /\ last.op = "tick" /\ ~last.jump /\ ~last.paused /\ last.exc = "none"
    /\ last.idle = IdleMs(DEFAULT_IDLE_THRESHOLD)
    /\ last.win = Win("", "YouTube")
    /\ last.inserted = 1
    /\ events[Len(events)].wm_class = "firefox"
    /\ wm_class = "" /\ title = "YouTube" /\ current_start = clock

---------------------------------------------------------------------------
\* the step made a flush: a shutdown, or a tick with a clock-jump split, a
\* new identity (window change, idle entry, pause entry) or an idle exit
FlushMade ==
    \/ last'.op = "stop" /\ last'.exc = "none"
    \/ /\ last'.op = "tick" /\ last'.exc = "none"
       /\ \/ last'.jump
          \/ wm_class' # wm_class \/ title' # title
          \/ is_idle /\ ~is_idle'

\* the open segment is younger than 1 second at the end of the step
Young == wm_class # "" /\ clock' - current_start < Sec

\* C22: a flush that discards the open segment because it lasted less than
\* 1 second still advances the start of the open segment to the close
\* boundary, wherever the flush is made.
C22_StartAdvanced ==
    [][FlushMade /\ Young => current_start' = clock']_vars

---------------------------------------------------------------------------
\* the latest tick read a clock that is behind the last successful tick
BackwardTick == last.op = "tick" /\ last.now < last.last_good

\* C23: a tick that finds the wall clock behind the last good tick handles
\* it as a clock jump and starts a new segment at the current time, and the
\* persisted events never overlap, those after a backward jump and those
\* before it included.
C23_BackwardJump ==
    /\ BackwardTick /\ last.exc = "none" =>
           last.jump /\ current_start >= last.now
    /\ \A i, j \in DOMAIN events : i < j => Disjoint(events[i], events[j])

---------------------------------------------------------------------------
\* the tick that ends in the next state opened a new segment: a clock-jump
\* split or a new identity (window change, idle entry, pause entry)
SegmentOpened ==
    /\ last'.op = "tick" /\ last'.exc = "none"
    /\ wm_class' # ""
    /\ last'.jump \/ wm_class' # wm_class \/ title' # title

\* the published state st describes the segment (c, t) that started at from
Describes(st, c, t, from) ==
    /\ ~IsNone(st)
    /\ Get(st, "wm_class") = c /\ Get(st, "title") = t
    /\ Get(st, "timestamp") = from

\* C24: after every tick that opened a new segment (window change, idle
\* entry, pause entry, clock-jump split) the published current state has
\* the identity, the title and the start of the watcher's open segment.
C24_PublishedIsOpen ==
    [][SegmentOpened =>
          Describes(tracking_state', wm_class', title', current_start')]_vars

---------------------------------------------------------------------------
\* C25: a flush of an Idle or Paused segment of at least 1 second persists
\* it with its own identity and title whatever the rule list contains:
\* ignore rules, redact rules, rules that match the segment and patterns
\* that do not compile; only a failing insert keeps it out of the storage.
C25_SentinelBypass ==
    /\ last.op = "flush"
    /\ wm_class \in Sentinels
    /\ last.duration >= Sec
    /\ last.exc # "db"
    => /\ last.exc = "none"
       /\ last.inserted = 1
       /\ events[1].wm_class = wm_class
       /\ events[1].title = title
       /\ events[1].is_idle = (wm_class = IDLE)

\* an Idle segment persisted although an ignore rule matches every segment
\* and a redact rule matches its title
C25_Witness ==
    /\ last.op = "flush" /\ last.inserted = 1
    /\ wm_class = IDLE /\ title = "YouTube"
    /\ filter_rules = <<Rule("redact", "", "youtube"), Rule("ignore", "", "")>>

---------------------------------------------------------------------------
\* the published state is Idle, is Paused or has an empty identity
OpenExcluded(curr) ==
    /\ ~IsNone(curr)
    /\ curr.is_idle \/ curr.wm_class \in Sentinels \cup {""}

PersistedKeys ==
    {<<events[i].wm_class, events[i].title>> :
         i \in {j \in DOMAIN events : InSummary(events[j])}}

\* C26: in a summary of today with an open segment that is Idle, is Paused
\* or has an empty identity, the rows are the groups of the persisted events,
\* each once, with the totals and counts of the persisted events alone.
C26_NoBlendOfExcluded ==
    (last.op = "summary" /\ OpenExcluded(tracking_state) /\ api_result.out = "rows") =>
        LET R == api_result.rows
        IN  /\ Len(R) = Cardinality(PersistedKeys)
            /\ \A i \in DOMAIN R :
                   LET g == Persisted(R[i].wm_class, R[i].title)
                   IN  /\ <<R[i].wm_class, R[i].title>> \in PersistedKeys
                       /\ R[i].total_secs = SumSecs(g)
                       /\ R[i].event_count = Len(g)
                       /\ R[i].last_seen = MaxOf({g[k].end_timestamp : k \in DOMAIN g})

\* a summary served while the open segment is Paused, with persisted events
C26_Witness ==
    /\ last.op = "summary" /\ api_result.out = "rows"
    /\ tracking_state = PausedState
    /\ Len(api_result.rows) = 2

---------------------------------------------------------------------------
\* the rows R begin with the persisted events, each once and as stored, in
\* the order of their start
PersistedFirst(R) ==
    /\ Len(R) >= Len(events)
    /\ \E p \in [DOMAIN events -> DOMAIN events] :
           /\ \A i, j \in DOMAIN events : i # j => p[i] # p[j]
           /\ \A i \in DOMAIN events : R[i].block = events[p[i]]
    /\ \A i, j \in DOMAIN events :
           i < j => R[i].block.timestamp <= R[j].block.timestamp

\* C27: a timeline of today with a non-null open segment (Active, Idle or
\* Paused) is the persisted blocks in the order of their start, unmerged and
\* unchanged, followed by exactly one block for the open segment, which
\* ends at now and lasts now minus the start of the segment.
C27_TimelineBlock ==
    (last.op = "timeline" /\ ~IsNone(tracking_state) /\ api_result.out = "rows") =>
        LET R == api_result.rows
        IN  /\ PersistedFirst(R)
            /\ Len(R) = Len(events) + 1
            /\ R[Len(R)].block.wm_class = tracking_state.wm_class
            /\ R[Len(R)].block.title = tracking_state.title
            /\ R[Len(R)].block.end_timestamp = api_query.now
            /\ R[Len(R)].block.duration_secs =
                   api_query.now - Get(tracking_state, "timestamp")

---------------------------------------------------------------------------
\* C28: daily totals (history, range history) and export depend only on the
\* persisted events: with the same persisted events, a call returns what
\* the call before it returned, whatever state is published at either call
\* (null, Active, Idle or Paused).
C28_TotalsIgnoreOpen ==
    [][(last'.op \in TotalsOps /\ last.op = last'.op /\ events' = events) =>
          api_result' = api_result]_vars

C28_Witness ==
    /\ last.op = "history"
    /\ last.before = <<PausedState>>
    /\ last.published = ActiveState("firefox", "YouTube", LastStored)
    /\ Len(api_result.rows) = 1
    /\ api_result.rows[1].active_secs > 0

---------------------------------------------------------------------------
\* the blocks of the timeline that count as a switch: not idle, after a
\* block that is not idle and has another identity
SwitchBlocks(R) ==
    {i \in 2..Len(R) : /\ ~R[i].is_idle
                       /\ ~R[i - 1].is_idle
                       /\ R[i].wm_class # R[i - 1].wm_class}

MetricsOf(res, R) ==
    /\ res.context_switches = Cardinality(SwitchBlocks(R))
    /\ res.focus_score \in 0..100
    /\ \/ res.focus_score = 100 - 2 * res.context_switches
       \/ res.focus_score = 0 /\ 100 - 2 * res.context_switches < 0

---------------------------------------------------------------------------
\* C30: after a timed pause with expiry E the flag reads true at every time
\* up to E and false at every time after E (so once it has read false it
\* stays false until pause is set again); a pause without expiry never
\* clears by itself; resume clears the flag and the stored expiry.
C30_TimedPause ==
    /\ last.op = "read" =>
          /\ last.set = "timed" =>
                /\ last.now <= last.expiry => last.value
                /\ last.now > last.expiry => ~last.value
          /\ last.set = "untimed" => last.value
          /\ last.set \in {"resume", "none"} => ~last.value
    /\ last.op = "resume" => ~is_paused /\ pause_until = 0

---------------------------------------------------------------------------
\* the iteration just made attempted a reload and the reload failed
ReloadFailed == last'.op = "tick" /\ last' # last /\ last'.reload = "failed"

\* C31: when a settings reload fails (storage error, or a stored value that
\* is not an integer), the poll interval, the idle threshold and the filter
\* rules keep the values they had before the attempt, the tick of that
\* iteration still runs, and the next attempt is due one cadence later.
C31_FailedReload ==
    [][ReloadFailed =>
          /\ poll_interval' = poll_interval
          /\ idle_threshold' = idle_threshold
          /\ filter_rules' = filter_rules
          /\ last'.win.kind = "window"
          /\ last_settings_refresh' = last'.now]_vars

---------------------------------------------------------------------------
\* the iteration just made attempted a reload, and one was attempted before
ReloadAgain ==
    /\ last'.op = "tick"
    /\ last' # last
    /\ last'.reload # "skipped"
    /\ last.op = "tick"
    /\ last.reload_at # <<>>

\* C32: two successive reloads of settings and filter rules (successful or
\* failed) are at least 60 seconds apart, whatever the poll interval is.
C32_ReloadCadence ==
    [][ReloadAgain => last'.now - last.reload_at[1] >= RefreshPeriod * Sec]_vars

C32_Witness ==
    /\ last.op = "tick"
    /\ last.reload = "failed"
    /\ last.now = RefreshPeriod * Sec
    /\ n_ticks = RefreshPeriod + 1

---------------------------------------------------------------------------
\* the persisted events and the open segment cover the time since the first
\* event began without a gap
NoTimeDropped ==
    /\ \A i \in DOMAIN events :
           i > 1 => events[i].timestamp = events[i - 1].end_timestamp
    /\ events # <<>> => current_start = events[Len(events)].end_timestamp

\* C38: when every tick comes one poll interval after the one before it (no
\* suspend, no stall, no failed poll), no clock jump is detected and no
\* tracked time is dropped, also on the tick at which a hot reload makes
\* poll_interval smaller.
C38_SteadyCadence ==
    (last.op = "tick" /\ db_rules = <<>>) => ~last.jump /\ NoTimeDropped

---------------------------------------------------------------------------
\* stop() ran while a tick was suspended in its flush, and the tick went on
StoppedInFlush ==
    /\ n_stops > 0
    /\ pending = NoPending
    /\ loop = "done"
    /\ last.op = "tick"

\* C33: when stop() runs while a tick's flush is suspended in the storage
\* insert, the open segment is persisted at most once: no two events have
\* the same start time and the events persisted do not overlap.
C33_StopDuringFlush ==
    StoppedInFlush =>
        \A i, j \in DOMAIN events :
            i # j => /\ events[i].timestamp # events[j].timestamp
                     /\ Disjoint(events[i], events[j])

---------------------------------------------------------------------------
\* how a summary counted the segment that the event e closed: through its
\* row in the events table, or through the live blend of the published state
ViaEvent(e) == \E i \in DOMAIN last.rows_seen : last.rows_seen[i] = e

ViaBlend(e) ==
    /\ Blendable(last.curr)
    /\ Describes(last.curr, e.wm_class, e.title, e.timestamp)

\* C34: for a today summary that runs concurrently with a flush of the
\* watcher, under every interleaving of its two reads with the insert of the
\* closed event and the publication of the new segment, the time of a
\* segment is counted through its persisted event or through the live
\* blend, never through both and never through neither.
C34_CountedOnce ==
    last.op = "summary" =>
        \A i \in DOMAIN last.stored :
            ViaEvent(last.stored[i]) # ViaBlend(last.stored[i])

---------------------------------------------------------------------------
\* C35: after every tick, whatever sequence of pause, un-pause, idle, return
\* from idle, absent window samples and failed flushes came before, the idle
\* flag of the watcher is true exactly when the identity of the open segment
\* is the idle sentinel.
C35_IdleFlagMatches ==
    last.op = "tick" => (is_idle <=> wm_class = IDLE)

---------------------------------------------------------------------------
\* a segment of this identity is matched by a redact rule, whatever its title
Redacting(c) ==
    /\ c \notin Sentinels \cup {""}
    /\ \A t \in Titles :
           ApplyFilterRules(filter_rules, c, t) = [out |-> "go", title |-> REDACTED]

\* what the query just served returns in the run that differs from this one
\* only in the title t of the open segment
TwinResult(t) ==
    LET twin == [tracking_state EXCEPT !.title = t]
    IN  IF last.op = "summary"
        THEN {Enrich(Blend(rows, twin, api_query.now), categories) :
                 rows \in GetSummaryRange(events)}
        ELSE {Colour(TimelineBlend(rows, twin, api_query.now), categories) :
                 rows \in GetTimeline(events)}

\* C36: redaction is not observable through queries: runs that differ only
\* in the title of a segment matched by a redact rule get the same summary
\* and timeline, while that segment is open (live blend of the published
\* state) and after it was flushed (its event carries the placeholder).
C36_RedactionHidden ==
    (last.op \in {"summary", "timeline"} /\ api_result.out = "rows") =>
        /\ \A i \in DOMAIN events :
               Redacting(events[i].wm_class) => events[i].title = REDACTED
        /\ (~IsNone(tracking_state) /\ Redacting(tracking_state.wm_class)) =>
               \A t \in Titles : TwinResult(t) = {api_result}

---------------------------------------------------------------------------
\* the time of the stored events that are neither idle nor paused
ActivityOf(evs) ==
    LET Activity(e) == ~e.is_idle /\ e.wm_class # PAUSED
    IN  SumSecs(SelectSeq(evs, Activity))

\* the timeline with its paused blocks taken for breaks, as idle blocks are
PausedAsBreak(evs) ==
    [i \in DOMAIN evs |->
        IF evs[i].wm_class = PAUSED THEN [evs[i] EXCEPT !.is_idle = TRUE]
        ELSE evs[i]]

\* C37: time during which tracking is paused is never reported as activity:
\* a persisted Paused segment adds nothing to active_secs in daily totals or
\* in metrics, is not counted as an application in context switches, and is
\* never a group of the per-app summary.
C37_PausedNotActivity ==
    /\ (last.op = "history" /\ events # <<>>) =>
           api_result.rows[1].active_secs = ActivityOf(events)
    /\ (last.op = "metrics") =>
           /\ api_result.active_secs = ActivityOf(events)
           /\ api_result.context_switches =
                  Cardinality(SwitchBlocks(PausedAsBreak(events)))
    /\ (last.op = "summary" /\ api_result.out = "rows") =>
           \A i \in DOMAIN api_result.rows : api_result.rows[i].wm_class # PAUSED

---------------------------------------------------------------------------
\* a tick or a shutdown of the watcher whose open segment has no identity
EmptyIdentityStep ==
    /\ wm_class = ""
    /\ last' # last
    /\ last'.op \in {"tick", "stop"}

\* C39: no persisted event has an empty wm_class, and a tick or a shutdown
\* that begins while the open segment's identity is empty inserts nothing;
\* the flush of the shutdown leaves the segment start at its close boundary.
C39_NoEmptyIdentity ==
    [][/\ \A i \in DOMAIN events' : events'[i].wm_class # ""
       /\ EmptyIdentityStep =>
              /\ events' = events
              /\ last'.inserted = 0
              /\ last'.exc \notin {"db", "re"}
              /\ (last'.op = "stop" => current_start' = clock')]_vars

\* the shutdown two seconds or more after a window without a class was
\* sampled: nothing was persisted for it
C39_Witness ==
    /\ last.op = "stop"
    /\ wm_class = ""
    /\ title = "YouTube"
    /\ last.duration >= Sec
    /\ last.inserted = 0
    /\ current_start = clock

---------------------------------------------------------------------------
\* C40: with tracking never paused and no filter rule stored, the Windows
\* watcher run over the same clock readings, idle samples and window samples
\* as the Linux watcher has persisted the same events (identity, title,
\* start, end, duration, idle flag) in the same order, and its loop is alive
\* exactly when the Linux loop is.
C40_SameEvents ==
    windows # NoWindows =>
        /\ windows.events = events
        /\ windows.loop = loop

\* both have persisted an idle event and a window's event
C40_Witness ==
    /\ windows # NoWindows
    /\ windows.events = events
    /\ \E i, j \in DOMAIN events :
           /\ events[i].is_idle
           /\ ~events[j].is_idle
           /\ events[j].wm_class \in Apps


====
